---- MODULE Spec2Model ----
(***************************************************************************)
(* The shard server (SCV) of siegetank-backend, src/server/scv.py: the     *)
(* stream lifecycle, the frame buffer and checkpoint protocol, and the     *)
(* heartbeat lease.                                                        *)
(*                                                                         *)
(* Every request handler is a sequence of steps, one step per access to    *)
(* the shared key-value store or to the stream directory (a pipeline is    *)
(* one step; consecutive reads are taken together).  pc[p] is the position *)
(* of worker process p inside its handler and loc[p] holds the handler's   *)
(* local variables.  server.start(0) forks one worker per CPU; all workers *)
(* share the store and the disk, and only task 0 runs the heartbeat pulse. *)
(*                                                                         *)
(*   Spec       one worker: requests are handled one after the other       *)
(*   SpecFrames one worker, one stream: frames, checkpoints and the lease  *)
(*   SpecConc   two workers whose handlers interleave step by step         *)
(*   SpecCrash  one worker that may be killed at any step and restarted    *)
(*   SpecQueue  one worker, two streams that gain frames and are queued    *)
(*   SpecLease  two workers, heartbeats and the reaper of task 0           *)
(*   SpecDownload one worker, frame files with an index, and downloads     *)
(*   SpecReap   SpecLease with a core that reports its stream stopped      *)
(*   SpecRace   two workers that write frames of one stream                *)
(*   SpecActivate two workers that create and activate streams             *)
(***************************************************************************)
EXTENDS Integers, Sequences, FiniteSets, TLC

\* ---------------------------------------------------------------- bounds
NumStreams == 2        \* POST /streams succeeds at most this many times
NumTargets == 1        \* target ids known to the command center
MaxTokens == 3         \* uuid4 tokens minted by /streams/activate
MaxTime == 3           \* the clock stops here
MaxFrames == 2         \* committed + buffered frames per stream
MaxErrors == 1         \* errors reported by cores per stream
MaxStarts == 1         \* restarts of a killed worker
FrameTokens == 2       \* activations where frames are followed
FrameStreams == 1      \* streams created where frames are followed
ConcStreams == 1       \* streams created while two workers interleave
ConcTokens == 2        \* tokens minted while two workers interleave
QueueStreams == 2      \* streams created where two streams gain frames
QueueTokens == 2       \* activations where two streams gain frames
LeaseStreams == 1      \* streams created while a worker and the reaper interleave
LeaseTokens == 2       \* activations while a worker and the reaper interleave
DownloadStreams == 1   \* streams created where frame files are downloaded
DownloadTokens == 1    \* activations where frame files are downloaded
\* tornado options, scaled to the model's clock (defaults 900 s and 3000 ms)
heartbeat_increment == 2
pulse_frequency == 1

Streams == 1..NumStreams
Targets == 1..NumTargets
Tokens == 1..MaxTokens
Procs == {0, 1}
SerialProcs == {0}

\* absent values
None == -1
NoHash == 0

\* users presenting an Authorization header to manager routes; the command
\* center's target catalog records Owner for every target
Owner == "alice"
Managers == {"alice", "bob"}
Users == {"alice", "bob", "eve"}

\* peer addresses of a request to /streams/activate
CCAddr == "10.0.0.1"
Loopback == "127.0.0.1"
OtherAddr == "203.0.113.9"
cc_ips == {CCAddr}
Addrs == {CCAddr, Loopback, OtherAddr}

\* files of a stream's files/ directory and what POST /streams stores there
StreamFileNames == {"state.xml.gz.b64"}
InitialContent == 0
CheckpointContents == {1, 2}
\* what PUT /streams/replace may store, and the names it may ask for
ReplaceContents == {3}
ReplaceNames == StreamFileNames \cup {"topol.top"}
\* the names GET /streams/download may ask for, each the parts of a file
\* name and whether the path leaves the stream directory: a stream file, a
\* frame file, and ../scv.log
DownloadNames ==
    { [up |-> FALSE, name |-> <<"state", "xml", "gz", "b64">>],
      [up |-> FALSE, name |-> <<"frames", "xtc">>],
      [up |-> TRUE, name |-> <<"scv", "log">>] }

\* request bodies of /core/frame: the optional frame count and the files,
\* each a name with its extensions and the encoded data
FrameBodies ==
    { [id |-> 1, frames |-> None,
       files |-> {[name |-> <<"frames", "xtc", "b64">>, data |-> <<"b64", <<65>>>>]}],
      [id |-> 2, frames |-> 2,
       files |-> {[name |-> <<"frames", "xtc", "b64">>, data |-> <<"b64", <<66>>>>]}],
      [id |-> 3, frames |-> 0,
       files |-> {[name |-> <<"frames", "xtc", "b64">>, data |-> <<"b64", <<67>>>>]}],
      [id |-> 4, frames |-> None,
       files |-> {[name |-> <<"frames", "xtc", "b64">>, data |-> <<"b64", <<68>>>>],
                  [name |-> <<"frames", "xtc", "idx", "b64">>,
                   data |-> <<"b64", <<69>>>>]}],
      [id |-> 5, frames |-> None, files |-> {}] }
\* the bodies of cores that write one frame file, and of cores that also
\* write an index next to it or send a frame without files
StandardBodies == {1, 2, 3}
IndexBodies == {1, 4, 5}
FrameBody(i) == CHOOSE b \in FrameBodies : b.id = i

\* request bodies of /core/checkpoint: file name -> content
CheckpointBodies ==
    { [id |-> c, files |-> [n \in StreamFileNames |-> c]] : c \in CheckpointContents }
CheckpointBody(i) == CHOOSE b \in CheckpointBodies : b.id = i

VARIABLES
    \* key-value store
    streams,        \* ids of the Stream entities
    frames,         \* Stream.frames
    status,         \* Stream.status
    error_count,    \* Stream.error_count
    target,         \* Stream.target (back reference of Target.streams)
    targets,        \* ids of the Target entities
    queue,          \* Target.queue: stream id -> score, None when absent
    active,         \* ids of the ActiveStream entities
    auth_token,     \* ActiveStream.auth_token
    buffer_frames,  \* ActiveStream.buffer_frames
    total_frames,   \* ActiveStream.total_frames
    frame_hash,     \* ActiveStream.frame_hash
    buffer_files,   \* ActiveStream.buffer_files
    heartbeats,     \* the sorted set 'heartbeats': stream id -> expiry
    \* stream directories
    dirs,           \* stream ids whose directory exists
    files,          \* files/<name> -> content
    chkpt,          \* files/chkpt_<K>_<name>: <<K, name>> -> content
    buffers,        \* buffer_<name> -> bytes
    committed,      \* <N>_<name>: <<N, name>> -> bytes
    \* environment
    now,            \* time.time()
    last_pulse,     \* when check_heartbeats last ran
    next_stream,    \* uuid4 stream ids drawn so far
    next_token,     \* uuid4 tokens drawn so far
    starts,         \* how often start() has run again
    limits,         \* how many stream ids and tokens the run may draw, and
                    \* the frame bodies its cores send
    \* workers
    pc, loc, resp,
    last            \* the core request worker p answered before this one

kvVars == <<streams, frames, status, error_count, target, targets, queue,
            active, auth_token, buffer_frames, total_frames, frame_hash,
            buffer_files, heartbeats>>
streamVars == <<streams, frames, status, error_count, target>>
activeVars == <<active, auth_token, buffer_frames, total_frames, frame_hash,
                buffer_files>>
diskVars == <<dirs, files, chkpt, buffers, committed>>
envVars == <<now, last_pulse, next_stream, next_token, starts, limits>>
procVars == <<pc, loc, resp, last>>
vars == <<kvVars, diskVars, envVars, procVars>>

\* ------------------------------------------------------------- workers
NoLoc == [op |-> "none", caller |-> "none", user |-> "none", ip |-> "none",
          sid |-> 0, tid |-> 0, tok |-> 0, count |-> 0, bcount |-> 0,
          todo |-> {}, names |-> {}, pipe |-> {}, body |-> 0, flag |-> FALSE,
          sent |-> <<>>]

NoLast == [op |-> "none", sid |-> 0, tok |-> 0, body |-> 0, code |-> 0]
CoreOps == {"CoreFrame", "CoreCheckpoint"}

Idle(p) == pc[p] = "idle"
AllIdle == \A p \in Procs : Idle(p)

\* the handler of worker p, with locals l, ends with status `code`
Finish(p, l, code) ==
    /\ pc' = [pc EXCEPT ![p] = "reply"]
    /\ loc' = [loc EXCEPT ![p] = l]
    /\ resp' = [resp EXCEPT ![p] = code]
    /\ UNCHANGED last

\* a callback of worker p returns with locals l: there is nobody to answer
Done(p, l) ==
    /\ pc' = [pc EXCEPT ![p] = "reply"]
    /\ loc' = [loc EXCEPT ![p] = l]
    /\ UNCHANGED <<resp, last>>

\* worker p moves on to step `label` with locals l
Goto(p, label, l) ==
    /\ pc' = [pc EXCEPT ![p] = label]
    /\ loc' = [loc EXCEPT ![p] = l]
    /\ resp' = [resp EXCEPT ![p] = 0]
    /\ UNCHANGED last

\* ------------------------------------------------------ entity layer
EmptyQueue == [s \in Streams |-> None]
EmptyFile == [x \in {} |-> 0]

ZMembers(q) == {s \in Streams : q[s] # None}
ZAdd(q, s, score) == [q EXCEPT ![s] = score]
ZRem(q, s) == [q EXCEPT ![s] = None]
\* the members zrevpop may return: those of the highest score
ZRevHead(q) == {s \in ZMembers(q) : \A r \in ZMembers(q) : q[r] <= q[s]}
ZRangeByScore(z, lo, hi) == {s \in Streams : z[s] # None /\ lo <= z[s] /\ z[s] <= hi}

\* Target.streams, the relation whose back reference is Stream.target
TargetStreams(t) == {s \in streams : target[s] = t}

\* ActiveStream.lookup('auth_token', token, db)
LookupToken(tok) ==
    IF \E s \in active : auth_token[s] = tok
    THEN CHOOSE s \in active : auth_token[s] = tok
    ELSE 0

\* ActiveStream.create(stream_id, db, fields) of ActivateStreamHandler.post
CreateActiveStream(s, tok) ==
    /\ active' = active \cup {s}
    /\ auth_token' = [auth_token EXCEPT ![s] = tok]
    /\ buffer_frames' = [buffer_frames EXCEPT ![s] = 0]
    /\ total_frames' = [total_frames EXCEPT ![s] = 0]
    /\ frame_hash' = [frame_hash EXCEPT ![s] = NoHash]
    /\ buffer_files' = [buffer_files EXCEPT ![s] = {}]

\* active_stream.delete() for every stream of S
DeleteActiveStreams(S) ==
    /\ active' = active \ S
    /\ auth_token' = [s \in Streams |-> IF s \in S THEN 0 ELSE auth_token[s]]
    /\ buffer_frames' = [s \in Streams |-> IF s \in S THEN 0 ELSE buffer_frames[s]]
    /\ total_frames' = [s \in Streams |-> IF s \in S THEN 0 ELSE total_frames[s]]
    /\ frame_hash' = [s \in Streams |-> IF s \in S THEN NoHash ELSE frame_hash[s]]
    /\ buffer_files' = [s \in Streams |-> IF s \in S THEN {} ELSE buffer_files[s]]

\* stream.delete() for every stream of S
DeleteStreams(S) ==
    /\ streams' = streams \ S
    /\ frames' = [s \in Streams |-> IF s \in S THEN 0 ELSE frames[s]]
    /\ status' = [s \in Streams |-> IF s \in S THEN "NONE" ELSE status[s]]
    /\ error_count' = [s \in Streams |-> IF s \in S THEN 0 ELSE error_count[s]]
    /\ target' = [s \in Streams |-> IF s \in S THEN 0 ELSE target[s]]

\* target.delete(): the entity with its queue; the relation is scrubbed
DeleteTargetEntity(t) ==
    /\ targets' = targets \ {t}
    /\ queue' = [queue EXCEPT ![t] = EmptyQueue]

\* shutil.rmtree(stream_dir)
RmTree(s) ==
    /\ dirs' = dirs \ {s}
    /\ files' = [files EXCEPT ![s] = EmptyFile]
    /\ chkpt' = [chkpt EXCEPT ![s] = EmptyFile]
    /\ buffers' = [buffers EXCEPT ![s] = EmptyFile]
    /\ committed' = [committed EXCEPT ![s] = EmptyFile]

\* a directory as a function from names to contents
Put(f, k, v) == [x \in DOMAIN f \cup {k} |-> IF x = k THEN v ELSE f[x]]
Drop(f, k) == [x \in DOMAIN f \ {k} |-> f[x]]

\* hashlib.md5(self.request.body).hexdigest(): one digest per body
Md5(b) == b.id

\* os.path.splitext on a name given by its parts
SplitExt(name) ==
    IF Len(name) > 1
    THEN [root |-> SubSeq(name, 1, Len(name) - 1), ext |-> name[Len(name)]]
    ELSE [root |-> name, ext |-> ""]

\* base64.b64decode and gzip.decompress
B64Decode(d) == d[2]
GzipDecompress(d) == d[2]

\* the name and the bytes CoreFrameHandler.put writes for one file of a body
DecodeFrameFile(f) ==
    LET a == SplitExt(f.name) IN
    IF a.ext = "b64"
    THEN LET b == SplitExt(a.root) IN
         IF b.ext = "gz"
         THEN [name |-> b.root, data |-> GzipDecompress(B64Decode(f.data))]
         ELSE [name |-> a.root, data |-> B64Decode(f.data)]
    ELSE [name |-> f.name, data |-> f.data]

\* frame_count of a body: content['frames'] or 1
FrameCount(b) == IF b.frames = None THEN 1 ELSE b.frames

\* ---------------------------------------------------------------- Init
InitOf(max_streams, max_tokens, bodies) ==
    /\ limits = [streams |-> max_streams, tokens |-> max_tokens, bodies |-> bodies]
    /\ streams = {}
    /\ frames = [s \in Streams |-> 0]
    /\ status = [s \in Streams |-> "NONE"]
    /\ error_count = [s \in Streams |-> 0]
    /\ target = [s \in Streams |-> 0]
    /\ targets = {}
    /\ queue = [t \in Targets |-> EmptyQueue]
    /\ active = {}
    /\ auth_token = [s \in Streams |-> 0]
    /\ buffer_frames = [s \in Streams |-> 0]
    /\ total_frames = [s \in Streams |-> 0]
    /\ frame_hash = [s \in Streams |-> NoHash]
    /\ buffer_files = [s \in Streams |-> {}]
    /\ heartbeats = [s \in Streams |-> None]
    /\ dirs = {}
    /\ files = [s \in Streams |-> EmptyFile]
    /\ chkpt = [s \in Streams |-> EmptyFile]
    /\ buffers = [s \in Streams |-> EmptyFile]
    /\ committed = [s \in Streams |-> EmptyFile]
    /\ now = 0
    /\ last_pulse = 0
    /\ next_stream = 0
    /\ next_token = 0
    /\ starts = 0
    /\ pc = [p \in Procs |-> "idle"]
    /\ loc = [p \in Procs |-> NoLoc]
    /\ resp = [p \in Procs |-> 0]
    /\ last = [p \in Procs |-> NoLast]

InitWith(max_streams, max_tokens) == InitOf(max_streams, max_tokens, StandardBodies)
Init == InitWith(NumStreams, MaxTokens)
InitFrames == InitWith(FrameStreams, FrameTokens)
InitConc == InitWith(ConcStreams, ConcTokens)
InitQueue == InitWith(QueueStreams, QueueTokens)
InitLease == InitWith(LeaseStreams, LeaseTokens)
InitDownload == InitOf(DownloadStreams, DownloadTokens, IndexBodies)

\* ------------------------------------------------------ authorization
\* authenticate_manager of server.common: the Authorization header names a
\* user of the managers collection (BaseHandler.get_current_user)
authenticate_manager(user) == user \in Managers

\* get_stream_owner(stream_id) != get_current_user() of the stream routes
IsOwner(user) == user = Owner

\* the Authorization header of a request: the token of user `user` of the
\* command center, or the uuid4 token `tok` of an activation; a uuid4 is no
\* user's token
Headers ==
    {[user |-> u, tok |-> 0] : u \in Users} \cup
    {[user |-> "none", tok |-> k] : k \in Tokens}

\* BaseHandler.get_current_user: the manager whose token the header is
get_current_user(h) == h.user

\* authenticate_cc: the peer is a command center or localhost
authenticate_cc(ip) == ip \in cc_ips \/ ip = Loopback

\* ------------------------------------------------- SCV.deactivate_stream
\* the for loop of SCV.check_heartbeats: the next dead stream, lowest expiry
\* first, or the end of the callback
PulseNext(p, l) ==
    IF l.todo = {}
    THEN Done(p, l)
    ELSE \E s \in l.todo :
            /\ \A r \in l.todo : heartbeats[s] <= heartbeats[r] \/ heartbeats[r] = None
            /\ pc' = [pc EXCEPT ![p] = "d_check"]
            /\ loc' = [loc EXCEPT ![p] = [l EXCEPT !.sid = s, !.todo = l.todo \ {s}]]
            /\ UNCHANGED <<resp, last>>

\* deactivate_stream returns to the handler that called it
Return(p, l) ==
    CASE l.caller = "CoreStop" -> Finish(p, l, 200)
      [] l.caller = "StreamStop" -> Goto(p, "stop_status", l)
      [] l.caller = "DeleteTarget" -> Goto(p, "dt_rmtree", l)
      [] OTHER -> PulseNext(p, l)

\* deactivate_stream raises KeyError: DeleteTargetHandler catches it, a
\* request handler answers 500, the periodic callback is abandoned
Raise(p, l) ==
    CASE l.caller = "DeleteTarget" -> Goto(p, "dt_rmtree", l)
      [] l.caller = "Pulse" -> Done(p, l)
      [] OTHER -> Finish(p, l, 500)

\* ActiveStream(stream_id, self.db): KeyError means there is nothing to do
deactivate_check(p) ==
    /\ pc[p] = "d_check"
    /\ IF loc[p].sid \in active
       THEN Goto(p, "d_zrem", loc[p])
       ELSE Return(p, loc[p])
    /\ UNCHANGED <<kvVars, diskVars, envVars>>

\* self.db.zrem('heartbeats', stream_id); active_stream.smembers('buffer_files')
deactivate_zrem(p) ==
    /\ pc[p] = "d_zrem"
    /\ heartbeats' = [heartbeats EXCEPT ![loc[p].sid] = None]
    /\ Goto(p, "d_buffers", [loc[p] EXCEPT !.names = buffer_files[loc[p].sid]])
    /\ UNCHANGED <<streamVars, targets, queue, activeVars, diskVars, envVars>>

\* mutant: the committed frame files are removed with the buffers
deactivate_buffers_committed(p) ==
    /\ pc[p] = "d_buffers"
    /\ LET s == loc[p].sid IN
       IF loc[p].names = {}
       THEN /\ Goto(p, "d_delete", loc[p])
            /\ committed' = [committed EXCEPT ![s] = EmptyFile]
            /\ UNCHANGED buffers
       ELSE \E n \in loc[p].names :
              /\ buffers' = [buffers EXCEPT ![s] = Drop(@, n)]
              /\ Goto(p, "d_buffers", [loc[p] EXCEPT !.names = loc[p].names \ {n}])
              /\ UNCHANGED committed
    /\ UNCHANGED <<kvVars, dirs, files, chkpt, envVars>>

\* os.remove of each buffer_<name> that exists
deactivate_buffers(p) ==
    /\ pc[p] = "d_buffers"
    /\ LET s == loc[p].sid IN
       IF loc[p].names = {}
       THEN /\ Goto(p, "d_delete", loc[p])
            /\ UNCHANGED buffers
       ELSE \E n \in loc[p].names :
              /\ buffers' = [buffers EXCEPT ![s] = Drop(@, n)]
              /\ Goto(p, "d_buffers", [loc[p] EXCEPT !.names = loc[p].names \ {n}])
    /\ UNCHANGED <<kvVars, dirs, files, chkpt, committed, envVars>>

\* active_stream.delete()
deactivate_delete(p) ==
    /\ pc[p] = "d_delete"
    /\ DeleteActiveStreams({loc[p].sid})
    /\ Goto(p, "d_read", loc[p])
    /\ UNCHANGED <<streamVars, targets, queue, heartbeats, diskVars, envVars>>

\* Stream(stream_id), stream.hget('frames'), Target(stream.hget('target'))
deactivate_read(p) ==
    /\ pc[p] = "d_read"
    /\ LET s == loc[p].sid IN
       IF s \in streams /\ target[s] \in targets
       THEN Goto(p, "d_zadd", [loc[p] EXCEPT !.count = frames[s], !.tid = target[s]])
       ELSE Raise(p, loc[p])
    /\ UNCHANGED <<kvVars, diskVars, envVars>>

\* mutant: the stream goes back to the queue with score 0, as a new stream
deactivate_zadd_zero(p) ==
    /\ pc[p] = "d_zadd"
    /\ queue' = [queue EXCEPT ![loc[p].tid] = ZAdd(@, loc[p].sid, 0)]
    /\ Return(p, loc[p])
    /\ UNCHANGED <<streamVars, targets, activeVars, heartbeats, diskVars, envVars>>

\* target.zadd('queue', stream_id, frames_completed)
deactivate_zadd(p) ==
    /\ pc[p] = "d_zadd"
    /\ queue' = [queue EXCEPT ![loc[p].tid] = ZAdd(@, loc[p].sid, loc[p].count)]
    /\ Return(p, loc[p])
    /\ UNCHANGED <<streamVars, targets, activeVars, heartbeats, diskVars, envVars>>

\* ------------------------------------------------------- POST /streams
\* workers inside POST /streams that have not drawn their stream id yet
Posting == {q \in Procs : pc[q] \in {"ps_target", "ps_mdb"}}

\* authenticate_manager and Target.exists; mdb_ok is the answer the call to
\* the target catalog will give
PostStreamHandler_post(p) ==
    /\ Idle(p)
    /\ next_stream + Cardinality(Posting) < limits.streams
    /\ \E user \in Users, t \in Targets, mdb_ok \in BOOLEAN :
         /\ authenticate_manager(user)
         /\ Goto(p, IF t \in targets THEN "ps_mdb" ELSE "ps_target",
                 [NoLoc EXCEPT !.op = "PostStream", !.user = user, !.tid = t,
                               !.flag = mdb_ok])
    /\ UNCHANGED <<kvVars, diskVars, envVars>>

\* a request authenticate_manager turns away
PostStreamHandler_return(p) ==
    /\ Idle(p)
    /\ \E h \in Headers, t \in Targets :
         /\ ~authenticate_manager(get_current_user(h))
         /\ Finish(p, [NoLoc EXCEPT !.op = "PostStream", !.user = h.user,
                                    !.tok = h.tok, !.tid = t], 401)
    /\ UNCHANGED <<kvVars, diskVars, envVars>>

\* Target.create(target_id, self.db): KeyError when it exists by now
PostStreamHandler_target(p) ==
    /\ pc[p] = "ps_target"
    /\ IF loc[p].tid \in targets
       THEN /\ Finish(p, loc[p], 500)
            /\ UNCHANGED targets
       ELSE /\ targets' = targets \cup {loc[p].tid}
            /\ Goto(p, "ps_mdb", loc[p])
    /\ UNCHANGED <<streamVars, queue, activeVars, heartbeats, diskVars, envVars>>

\* cursor.update(...) on the target catalog, then the stream id, the
\* directory and its files
PostStreamHandler_files(p) ==
    /\ pc[p] = "ps_mdb"
    /\ IF ~loc[p].flag
       THEN /\ Finish(p, loc[p], 400)
            /\ UNCHANGED <<diskVars, envVars>>
       ELSE LET s == next_stream + 1 IN
            /\ next_stream' = s
            /\ dirs' = dirs \cup {s}
            /\ files' = [files EXCEPT ![s] = [n \in StreamFileNames |-> InitialContent]]
            /\ Goto(p, "ps_exec", [loc[p] EXCEPT !.sid = s])
            /\ UNCHANGED <<chkpt, buffers, committed, now, last_pulse, next_token,
                           starts, limits>>
    /\ UNCHANGED kvVars

\* mutant: the stream is created and not queued
PostStreamHandler_execute_unqueued(p) ==
    /\ pc[p] = "ps_exec"
    /\ LET s == loc[p].sid
           t == loc[p].tid IN
       /\ streams' = streams \cup {s}
       /\ frames' = [frames EXCEPT ![s] = 0]
       /\ status' = [status EXCEPT ![s] = "OK"]
       /\ error_count' = [error_count EXCEPT ![s] = 0]
       /\ target' = [target EXCEPT ![s] = t]
    /\ Finish(p, loc[p], 200)
    /\ UNCHANGED <<queue, targets, activeVars, heartbeats, diskVars, envVars>>

\* the pipeline: target.zadd('queue', stream_id, 0) and Stream.create
PostStreamHandler_execute(p) ==
    /\ pc[p] = "ps_exec"
    /\ LET s == loc[p].sid
           t == loc[p].tid IN
       /\ queue' = [queue EXCEPT ![t] = ZAdd(@, s, 0)]
       /\ streams' = streams \cup {s}
       /\ frames' = [frames EXCEPT ![s] = 0]
       /\ status' = [status EXCEPT ![s] = "OK"]
       /\ error_count' = [error_count EXCEPT ![s] = 0]
       /\ target' = [target EXCEPT ![s] = t]
    /\ Finish(p, loc[p], 200)
    /\ UNCHANGED <<targets, activeVars, heartbeats, diskVars, envVars>>

\* ----------------------------------------------- POST /streams/activate
\* mutant: the pop takes the lowest score
ActivateStreamHandler_post_lowest(p) ==
    /\ Idle(p)
    /\ next_token < limits.tokens
    /\ \E ip \in Addrs, t \in targets, s \in Streams :
         /\ s \in ZMembers(queue[t])
         /\ \A r \in ZMembers(queue[t]) : queue[t][s] <= queue[t][r]
         /\ queue' = [queue EXCEPT ![t] = ZRem(@, s)]
         /\ next_token' = next_token + 1
         /\ Goto(p, "act_create",
                 [NoLoc EXCEPT !.op = "Activate", !.ip = ip, !.tid = t,
                               !.sid = s, !.tok = next_token + 1])
    /\ UNCHANGED <<streamVars, targets, activeVars, heartbeats, diskVars,
                   now, last_pulse, next_stream, starts, limits>>

\* mutant: the token is not drawn afresh
ActivateStreamHandler_post_reuse(p) ==
    /\ Idle(p)
    /\ next_token < limits.tokens
    /\ \E ip \in Addrs, t \in targets, s \in Streams :
         /\ s \in ZRevHead(queue[t])
         /\ queue' = [queue EXCEPT ![t] = ZRem(@, s)]
         /\ next_token' = next_token + 1
         /\ Goto(p, "act_create",
                 [NoLoc EXCEPT !.op = "Activate", !.ip = ip, !.tid = t,
                               !.sid = s, !.tok = 1])
    /\ UNCHANGED <<streamVars, targets, activeVars, heartbeats, diskVars,
                   now, last_pulse, next_stream, starts, limits>>

\* mutant: the head of the queue is read and left in the queue
ActivateStreamHandler_post_peek(p) ==
    /\ Idle(p)
    /\ next_token < limits.tokens
    /\ \E ip \in Addrs, t \in targets, s \in Streams :
         /\ s \in ZRevHead(queue[t])
         /\ next_token' = next_token + 1
         /\ Goto(p, "act_create",
                 [NoLoc EXCEPT !.op = "Activate", !.ip = ip, !.tid = t,
                               !.sid = s, !.tok = next_token + 1])
    /\ UNCHANGED <<streamVars, targets, queue, activeVars, heartbeats, diskVars,
                   now, last_pulse, next_stream, starts, limits>>

\* Target(target_id, self.db) and target.zrevpop('queue'); the handler is
\* not decorated with authenticate_cc, so the peer address is not looked at
ActivateStreamHandler_post(p) ==
    /\ Idle(p)
    /\ next_token < limits.tokens
    /\ \E ip \in Addrs, t \in targets, s \in Streams :
         /\ s \in ZRevHead(queue[t])
         /\ queue' = [queue EXCEPT ![t] = ZRem(@, s)]
         /\ next_token' = next_token + 1
         /\ Goto(p, "act_create",
                 [NoLoc EXCEPT !.op = "Activate", !.ip = ip, !.tid = t,
                               !.sid = s, !.tok = next_token + 1])
    /\ UNCHANGED <<streamVars, targets, activeVars, heartbeats, diskVars,
                   now, last_pulse, next_stream, starts, limits>>

\* Target(target_id) raises KeyError, or zrevpop finds the queue empty:
\* 'no streams available'
ActivateStreamHandler_return(p) ==
    /\ Idle(p)
    /\ \E ip \in Addrs, t \in Targets :
         LET l == [NoLoc EXCEPT !.op = "Activate", !.ip = ip, !.tid = t] IN
         \/ t \notin targets /\ Finish(p, l, 500)
         \/ t \in targets /\ ZMembers(queue[t]) = {} /\ Finish(p, l, 400)
    /\ UNCHANGED <<kvVars, diskVars, envVars>>

\* ActiveStream.create(stream_id, self.db, fields): KeyError when it exists
ActivateStreamHandler_create(p) ==
    /\ pc[p] = "act_create"
    /\ IF loc[p].sid \in active
       THEN /\ Finish(p, loc[p], 500)
            /\ UNCHANGED activeVars
       ELSE /\ CreateActiveStream(loc[p].sid, loc[p].tok)
            /\ Goto(p, "act_heartbeat", loc[p])
    /\ UNCHANGED <<streamVars, targets, queue, heartbeats, diskVars, envVars>>

\* self.db.zadd('heartbeats', stream_id, time.time() + increment)
ActivateStreamHandler_heartbeat(p) ==
    /\ pc[p] = "act_heartbeat"
    /\ heartbeats' = [heartbeats EXCEPT ![loc[p].sid] = now + heartbeat_increment]
    /\ Finish(p, loc[p], 200)
    /\ UNCHANGED <<streamVars, targets, queue, activeVars, diskVars, envVars>>

\* ------------------------------------------------------- GET /core/start
\* authenticate_core, then the stream, its target and the files of files/:
\* the status and the file contents written
CoreStart(h) ==
    LET s == LookupToken(h.tok) IN
    IF s = 0 THEN [code |-> 401, sent |-> <<>>]
    ELSE IF s \notin streams \/ status[s] # "OK" \/ s \notin dirs
    THEN [code |-> 500, sent |-> <<>>]
    ELSE [code |-> 200, sent |-> <<files[s]>>]

CoreStartHandler_get(p) ==
    /\ Idle(p)
    /\ \E h \in Headers :
         Finish(p, [NoLoc EXCEPT !.op = "CoreStart", !.user = h.user,
                                 !.tok = h.tok, !.sid = LookupToken(h.tok),
                                 !.sent = CoreStart(h).sent],
                CoreStart(h).code)
    /\ UNCHANGED <<kvVars, diskVars, envVars>>

\* -------------------------------------------------------- PUT /core/stop
\* authenticate_core, Stream(stream_id, self.db) and the request body
CoreStopHandler_put(p) ==
    /\ Idle(p)
    /\ \E tok \in Tokens, error \in BOOLEAN :
         LET s == LookupToken(tok)
             l == [NoLoc EXCEPT !.op = "CoreStop", !.caller = "CoreStop",
                                !.sid = s, !.tok = tok, !.flag = error]
         IN
         /\ s \in streams
         /\ error => error_count[s] < MaxErrors
         /\ Goto(p, IF error THEN "cs_error" ELSE "d_check", l)
    /\ UNCHANGED <<kvVars, diskVars, envVars>>

\* authenticate_core answers 401, or Stream(stream_id) raises KeyError
CoreStopHandler_return(p) ==
    /\ Idle(p)
    /\ \E h \in Headers :
         LET s == LookupToken(h.tok)
             l == [NoLoc EXCEPT !.op = "CoreStop", !.sid = s, !.user = h.user,
                                !.tok = h.tok]
         IN
         /\ s \notin streams
         /\ Finish(p, l, IF s = 0 THEN 401 ELSE 500)
    /\ UNCHANGED <<kvVars, diskVars, envVars>>

\* mutant: the error is logged and not counted
CoreStopHandler_error_skip(p) ==
    /\ pc[p] = "cs_error"
    /\ Goto(p, "d_check", loc[p])
    /\ UNCHANGED <<kvVars, diskVars, envVars>>

\* stream.hincrby('error_count', 1) and the line appended to error_log.txt
CoreStopHandler_error(p) ==
    /\ pc[p] = "cs_error"
    /\ error_count' = [error_count EXCEPT ![loc[p].sid] = @ + 1]
    /\ Goto(p, "d_check", loc[p])
    /\ UNCHANGED <<streams, frames, status, target, targets, queue, activeVars,
                   heartbeats, diskVars, envVars>>

\* --------------------------------------------------- POST /core/heartbeat
CoreHeartbeatHandler_post(p) ==
    /\ Idle(p)
    /\ \E tok \in Tokens :
         LET s == LookupToken(tok)
             l == [NoLoc EXCEPT !.op = "CoreHeartbeat", !.sid = s, !.tok = tok]
         IN
         s # 0 /\ Goto(p, "hb_zadd", l)
    /\ UNCHANGED <<kvVars, diskVars, envVars>>

\* authenticate_core answers 401
CoreHeartbeatHandler_return(p) ==
    /\ Idle(p)
    /\ \E h \in Headers :
         /\ LookupToken(h.tok) = 0
         /\ Finish(p, [NoLoc EXCEPT !.op = "CoreHeartbeat", !.user = h.user,
                                    !.tok = h.tok], 401)
    /\ UNCHANGED <<kvVars, diskVars, envVars>>

\* self.db.zadd('heartbeats', stream_id, time.time() + increment)
CoreHeartbeatHandler_zadd(p) ==
    /\ pc[p] = "hb_zadd"
    /\ heartbeats' = [heartbeats EXCEPT ![loc[p].sid] = now + heartbeat_increment]
    /\ Finish(p, loc[p], 200)
    /\ UNCHANGED <<streamVars, targets, queue, activeVars, diskVars, envVars>>

\* ------------------------------------------------- SCV.check_heartbeats
\* the PeriodicCallback of task 0: zrangebyscore('heartbeats', 0, time.time())
check_heartbeats(p) ==
    /\ p = 0
    /\ Idle(p)
    /\ now - last_pulse >= pulse_frequency
    /\ last_pulse' = now
    /\ PulseNext(p, [NoLoc EXCEPT !.op = "Pulse", !.caller = "Pulse",
                                  !.todo = ZRangeByScore(heartbeats, 0, now)])
    /\ UNCHANGED <<kvVars, diskVars, now, next_stream, next_token, starts, limits>>

\* the clock; the pulse is not late
Tick ==
    /\ now < MaxTime
    /\ now - last_pulse < pulse_frequency
    /\ now' = now + 1
    /\ UNCHANGED <<kvVars, diskVars, last_pulse, next_stream, next_token, starts,
                   limits, procVars>>

\* -------------------------------------------------- PUT /streams/start
\* the checks the stream routes of a manager begin with: 0 when they pass
ManagerChecks(user, s) ==
    IF ~authenticate_manager(user) THEN 401
    ELSE IF s \notin streams THEN 400
    ELSE IF ~IsOwner(user) THEN 401
    ELSE 0

\* the checks and reads of StreamStartHandler.put on a stream that is not OK
StreamStartHandler_put(p) ==
    /\ Idle(p)
    /\ \E user \in Users, s \in Streams :
         /\ ManagerChecks(user, s) = 0
         /\ target[s] \in targets
         /\ status[s] # "OK"
         /\ Goto(p, "start_exec",
                 [NoLoc EXCEPT !.op = "StreamStart", !.user = user, !.sid = s,
                               !.tid = target[s], !.count = frames[s]])
    /\ UNCHANGED <<kvVars, diskVars, envVars>>

\* a request the checks turn away, or a stream that is OK already
StreamStartHandler_return(p) ==
    /\ Idle(p)
    /\ \E h \in Headers, s \in Streams :
         LET user == get_current_user(h)
             l == [NoLoc EXCEPT !.op = "StreamStart", !.user = h.user,
                                !.tok = h.tok, !.sid = s] IN
         IF ManagerChecks(user, s) # 0 THEN Finish(p, l, ManagerChecks(user, s))
         ELSE IF target[s] \notin targets THEN Finish(p, l, 500)
         ELSE status[s] = "OK" /\ Finish(p, l, 200)
    /\ UNCHANGED <<kvVars, diskVars, envVars>>

\* mutant: the stream is queued with score 0
StreamStartHandler_execute_zero(p) ==
    /\ pc[p] = "start_exec"
    /\ LET s == loc[p].sid IN
       /\ status' = [status EXCEPT ![s] = IF s \in streams THEN "OK" ELSE @]
       /\ error_count' = [error_count EXCEPT ![s] = 0]
       /\ queue' = [queue EXCEPT ![loc[p].tid] = ZAdd(@, s, 0)]
    /\ Finish(p, loc[p], 200)
    /\ UNCHANGED <<streams, frames, target, targets, activeVars, heartbeats,
                   diskVars, envVars>>

\* the pipeline: status OK, error_count 0, zadd('queue', stream_id, count)
StreamStartHandler_execute(p) ==
    /\ pc[p] = "start_exec"
    /\ LET s == loc[p].sid IN
       /\ status' = [status EXCEPT ![s] = IF s \in streams THEN "OK" ELSE @]
       /\ error_count' = [error_count EXCEPT ![s] = 0]
       /\ queue' = [queue EXCEPT ![loc[p].tid] = ZAdd(@, s, loc[p].count)]
    /\ Finish(p, loc[p], 200)
    /\ UNCHANGED <<streams, frames, target, targets, activeVars, heartbeats,
                   diskVars, envVars>>

\* --------------------------------------------------- PUT /streams/stop
\* the checks of StreamStopHandler.put, then self.deactivate_stream
StreamStopHandler_put(p) ==
    /\ Idle(p)
    /\ \E user \in Users, s \in Streams :
         /\ ManagerChecks(user, s) = 0
         /\ Goto(p, "d_check",
                 [NoLoc EXCEPT !.op = "StreamStop", !.caller = "StreamStop",
                               !.user = user, !.sid = s])
    /\ UNCHANGED <<kvVars, diskVars, envVars>>

\* a request the checks turn away
StreamStopHandler_return(p) ==
    /\ Idle(p)
    /\ \E h \in Headers, s \in Streams :
         /\ ManagerChecks(get_current_user(h), s) # 0
         /\ Finish(p, [NoLoc EXCEPT !.op = "StreamStop", !.user = h.user,
                                    !.tok = h.tok, !.sid = s],
                   ManagerChecks(get_current_user(h), s))
    /\ UNCHANGED <<kvVars, diskVars, envVars>>

\* Stream(stream_id), Target(target_id) and stream.hget('status')
StreamStopHandler_status(p) ==
    /\ pc[p] = "stop_status"
    /\ LET s == loc[p].sid IN
       IF s \notin streams \/ target[s] \notin targets THEN Finish(p, loc[p], 500)
       ELSE IF status[s] # "STOPPED"
       THEN Goto(p, "stop_exec", [loc[p] EXCEPT !.tid = target[s]])
       ELSE Finish(p, loc[p], 200)
    /\ UNCHANGED <<kvVars, diskVars, envVars>>

\* the pipeline: status STOPPED, zrem('queue', stream_id)
StreamStopHandler_execute(p) ==
    /\ pc[p] = "stop_exec"
    /\ LET s == loc[p].sid IN
       /\ status' = [status EXCEPT ![s] = IF s \in streams THEN "STOPPED" ELSE @]
       /\ queue' = [queue EXCEPT ![loc[p].tid] = ZRem(@, s)]
    /\ Finish(p, loc[p], 200)
    /\ UNCHANGED <<streams, frames, error_count, target, targets, activeVars,
                   heartbeats, diskVars, envVars>>

\* ------------------------------------------------- PUT /streams/delete
\* the checks and reads of StreamDeleteHandler.put
StreamDeleteHandler_put(p) ==
    /\ Idle(p)
    /\ \E user \in Users, s \in Streams :
         /\ ManagerChecks(user, s) = 0
         /\ target[s] \in targets
         /\ Goto(p, "del_exec",
                 [NoLoc EXCEPT !.op = "StreamDelete", !.user = user, !.sid = s,
                               !.tid = target[s], !.flag = s \in active])
    /\ UNCHANGED <<kvVars, diskVars, envVars>>

\* a request the checks turn away
StreamDeleteHandler_return(p) ==
    /\ Idle(p)
    /\ \E h \in Headers, s \in Streams :
         LET user == get_current_user(h)
             l == [NoLoc EXCEPT !.op = "StreamDelete", !.user = h.user,
                                !.tok = h.tok, !.sid = s] IN
         IF ManagerChecks(user, s) # 0 THEN Finish(p, l, ManagerChecks(user, s))
         ELSE target[s] \notin targets /\ Finish(p, l, 500)
    /\ UNCHANGED <<kvVars, diskVars, envVars>>

\* the pipeline: active_stream.delete, zrem('queue', stream_id),
\* stream.delete; 'heartbeats' is not part of it
StreamDeleteHandler_execute(p) ==
    /\ pc[p] = "del_exec"
    /\ LET s == loc[p].sid IN
       /\ IF loc[p].flag THEN DeleteActiveStreams({s}) ELSE UNCHANGED activeVars
       /\ queue' = [queue EXCEPT ![loc[p].tid] = ZRem(@, s)]
       /\ DeleteStreams({s})
    /\ Goto(p, "del_scard", loc[p])
    /\ UNCHANGED <<targets, heartbeats, diskVars, envVars>>

\* target.scard('streams') == 0
StreamDeleteHandler_scard(p) ==
    /\ pc[p] = "del_scard"
    /\ IF TargetStreams(loc[p].tid) = {}
       THEN Goto(p, "del_target", loc[p])
       ELSE Finish(p, loc[p], 200)
    /\ UNCHANGED <<kvVars, diskVars, envVars>>

\* target.delete()
StreamDeleteHandler_target(p) ==
    /\ pc[p] = "del_target"
    /\ DeleteTargetEntity(loc[p].tid)
    /\ target' = [s \in Streams |-> IF target[s] = loc[p].tid THEN 0 ELSE target[s]]
    /\ Finish(p, loc[p], 200)
    /\ UNCHANGED <<streams, frames, status, error_count, activeVars, heartbeats,
                   diskVars, envVars>>

\* ------------------------------------------------- PUT /targets/delete
\* the loop of DeleteTargetHandler.put: deactivate the next stream, or
\* execute the pipeline when there is none left
DeleteTargetNext(p, l) ==
    IF l.todo = {}
    THEN Goto(p, "dt_exec", l)
    ELSE \E s \in l.todo :
            Goto(p, "d_check", [l EXCEPT !.sid = s, !.todo = l.todo \ {s}])

\* Target(target_id, self.db) and target.smembers('streams'); the handler
\* has no decorator and never reads the Authorization header h of the
\* request
DeleteTargetHandler_put(p) ==
    /\ Idle(p)
    /\ \E h \in Headers, t \in targets :
         DeleteTargetNext(p, [NoLoc EXCEPT !.op = "DeleteTarget",
                                           !.caller = "DeleteTarget",
                                           !.user = h.user, !.tok = h.tok,
                                           !.tid = t,
                                           !.todo = TargetStreams(t)])
    /\ UNCHANGED <<kvVars, diskVars, envVars>>

\* Target(target_id) raises: there is nothing to delete
DeleteTargetHandler_return(p) ==
    /\ Idle(p)
    /\ \E h \in Headers, t \in Targets \ targets :
         Finish(p, [NoLoc EXCEPT !.op = "DeleteTarget", !.user = h.user,
                                 !.tok = h.tok, !.tid = t], 200)
    /\ UNCHANGED <<kvVars, diskVars, envVars>>

\* shutil.rmtree(stream_dir); stream.delete(pipeline=pipe) is queued
DeleteTargetHandler_rmtree(p) ==
    /\ pc[p] = "dt_rmtree"
    /\ RmTree(loc[p].sid)
    /\ DeleteTargetNext(p, [loc[p] EXCEPT !.pipe = @ \cup {loc[p].sid}])
    /\ UNCHANGED <<kvVars, envVars>>

\* pipe.execute(): every stream.delete and target.delete
DeleteTargetHandler_execute(p) ==
    /\ pc[p] = "dt_exec"
    /\ DeleteStreams(loc[p].pipe \cup {s \in streams : target[s] = loc[p].tid})
    /\ DeleteTargetEntity(loc[p].tid)
    /\ Finish(p, loc[p], 200)
    /\ UNCHANGED <<activeVars, heartbeats, diskVars, envVars>>

\* --------------------------------------------------- GET /streams/info
\* Stream(stream_id, self.db) raises KeyError for a stream that has no
\* record; otherwise the body is written with status 200
StreamInfo(s) == IF s \in streams THEN 200 ELSE 500

StreamInfoHandler_get(p) ==
    /\ Idle(p)
    /\ \E s \in Streams :
         Finish(p, [NoLoc EXCEPT !.op = "StreamInfo", !.sid = s], StreamInfo(s))
    /\ UNCHANGED <<kvVars, diskVars, envVars>>

\* ------------------------------------------------ GET /targets/streams
\* mutant: the streams listed are those of the queue
TargetStreamsHandler_get_queued(p) ==
    /\ Idle(p)
    /\ \E t \in Targets :
         LET l == [NoLoc EXCEPT !.op = "TargetStreams", !.tid = t] IN
         IF t \notin targets THEN Finish(p, l, 500)
         ELSE Finish(p, [l EXCEPT !.pipe = ZMembers(queue[t])], 200)
    /\ UNCHANGED <<kvVars, diskVars, envVars>>

\* Target(target_id, self.db) raises KeyError for a target that has no
\* record; otherwise the body has one key for each member of
\* target.smembers('streams')
TargetStreamsHandler_get(p) ==
    /\ Idle(p)
    /\ \E t \in Targets :
         LET l == [NoLoc EXCEPT !.op = "TargetStreams", !.tid = t] IN
         IF t \notin targets THEN Finish(p, l, 500)
         ELSE Finish(p, [l EXCEPT !.pipe = TargetStreams(t)], 200)
    /\ UNCHANGED <<kvVars, diskVars, envVars>>

\* ------------------------------------------------- PUT /streams/replace
\* the status StreamReplaceHandler.put has set when it reaches its writes:
\* 0 when it goes on to write. A caller who is not the owner gets
\* set_status(401) and the handler goes on
ReplaceChecks(user, s, n) ==
    IF ~authenticate_manager(user) THEN 401
    ELSE IF s \notin streams THEN 500
    ELSE IF status[s] # "STOPPED" THEN 400
    ELSE IF s \notin dirs THEN 500
    ELSE IF n \notin DOMAIN files[s] THEN 400
    ELSE 0

\* the checks of StreamReplaceHandler.put on a body with one file
StreamReplaceHandler_put(p) ==
    /\ Idle(p)
    /\ \E user \in Users, s \in Streams, n \in ReplaceNames, c \in ReplaceContents :
         /\ ReplaceChecks(user, s, n) = 0
         /\ Goto(p, "rep_write",
                 [NoLoc EXCEPT !.op = "StreamReplace", !.user = user, !.sid = s,
                               !.todo = {n}, !.body = c])
    /\ UNCHANGED <<kvVars, diskVars, envVars>>

\* a request that ends before the files are written
StreamReplaceHandler_return(p) ==
    /\ Idle(p)
    /\ \E h \in Headers, s \in Streams, n \in ReplaceNames, c \in ReplaceContents :
         /\ ReplaceChecks(get_current_user(h), s, n) # 0
         /\ Finish(p, [NoLoc EXCEPT !.op = "StreamReplace", !.user = h.user,
                                    !.tok = h.tok, !.sid = s, !.todo = {n},
                                    !.body = c],
                   ReplaceChecks(get_current_user(h), s, n))
    /\ UNCHANGED <<kvVars, diskVars, envVars>>

\* open(os.path.join(stream_dir, filename), 'w') and handle.write(binary),
\* then set_status(200)
StreamReplaceHandler_write(p) ==
    /\ pc[p] = "rep_write"
    /\ LET s == loc[p].sid IN
       IF s \notin dirs
       THEN /\ Finish(p, loc[p], 500)
            /\ UNCHANGED files
       ELSE /\ files' = [files EXCEPT ![s] =
                            [n \in DOMAIN @ \cup loc[p].todo |->
                                IF n \in loc[p].todo THEN loc[p].body ELSE @[n]]]
            /\ Finish(p, loc[p], 200)
    /\ UNCHANGED <<kvVars, dirs, chkpt, buffers, committed, envVars>>

\* ------------------------------------------------ GET /streams/download
\* os.path.dirname(os.path.abspath(os.path.join(stream_dir, filename))) is
\* os.path.abspath(stream_dir)
InStreamDir(name) == ~name.up

\* filename in f, on names given by their parts
IsInfix(a, b) ==
    \E i \in 0..(Len(b) - Len(a)) : SubSeq(b, i + 1, i + Len(a)) = a

\* the frame files of F, sorted by their frame number, one after the other
RECURSIVE Concatenate(_, _)
Concatenate(F, d) ==
    IF F = {} THEN <<>>
    ELSE LET k == CHOOSE k \in F : \A j \in F : k[1] <= j[1]
         IN  d[k] \o Concatenate(F \ {k}, d)

\* the name of a stream file, from its parts
RECURSIVE Join(_)
Join(name) ==
    IF Len(name) = 1 THEN name[1] ELSE name[1] \o "." \o Join(Tail(name))

\* StreamDownloadHandler.get: the status and the bytes written. A caller who
\* is not the owner gets set_status(401) and the handler goes on
Download(user, s, name) ==
    IF ~authenticate_manager(user) THEN [code |-> 401, sent |-> <<>>]
    ELSE IF ~InStreamDir(name) THEN [code |-> 400, sent |-> <<>>]
    ELSE IF s \notin streams \/ s \notin dirs THEN [code |-> 500, sent |-> <<>>]
    ELSE IF Join(name.name) \in DOMAIN files[s]
    THEN [code |-> 200, sent |-> <<files[s][Join(name.name)]>>]
    ELSE IF frames[s] > 0
    THEN [code |-> 200,
          sent |-> Concatenate({k \in DOMAIN committed[s] : IsInfix(name.name, k[2])},
                               committed[s])]
    ELSE [code |-> 200, sent |-> <<>>]

StreamDownloadHandler_get(p) ==
    /\ Idle(p)
    /\ \E h \in Headers, s \in Streams, name \in DownloadNames :
         LET d == Download(get_current_user(h), s, name) IN
         Finish(p, [NoLoc EXCEPT !.op = "StreamDownload", !.user = h.user,
                                 !.tok = h.tok, !.sid = s, !.names = {name},
                                 !.sent = d.sent],
                d.code)
    /\ UNCHANGED <<kvVars, diskVars, envVars>>

\* -------------------------------------------------------- PUT /core/frame
\* authenticate_core and the comparison of md5(body) with frame_hash
CoreFrameHandler_put(p) ==
    /\ Idle(p)
    /\ \E tok \in Tokens, b \in FrameBodies :
         LET s == LookupToken(tok)
             l == [NoLoc EXCEPT !.op = "CoreFrame", !.sid = s, !.tok = tok,
                                !.body = b.id]
         IN
         /\ b.id \in limits.bodies
         /\ s # 0
         /\ frame_hash[s] # Md5(b)
         /\ frames[s] + buffer_frames[s] + FrameCount(b) <= MaxFrames
         /\ Goto(p, "f_hash", l)
    /\ UNCHANGED <<kvVars, diskVars, envVars>>

\* authenticate_core answers 401, or the body is the one received last
CoreFrameHandler_return(p) ==
    /\ Idle(p)
    /\ \E h \in Headers, b \in FrameBodies :
         LET s == LookupToken(h.tok)
             l == [NoLoc EXCEPT !.op = "CoreFrame", !.sid = s, !.user = h.user,
                                !.tok = h.tok, !.body = b.id]
         IN
         /\ b.id \in limits.bodies
         /\ IF s = 0 THEN Finish(p, l, 401)
            ELSE frame_hash[s] = Md5(b) /\ Finish(p, l, 200)
    /\ UNCHANGED <<kvVars, diskVars, envVars>>

\* mutant: the digest of the body is not stored
CoreFrameHandler_hash_unset(p) ==
    /\ pc[p] = "f_hash"
    /\ IF FrameCount(FrameBody(loc[p].body)) < 1
       THEN Finish(p, loc[p], 400)
       ELSE Goto(p, "f_clear", [loc[p] EXCEPT !.count = FrameCount(FrameBody(loc[p].body))])
    /\ UNCHANGED <<kvVars, diskVars, envVars>>

\* active_stream.hset('frame_hash', frame_hash), then the frame count
CoreFrameHandler_hash(p) ==
    /\ pc[p] = "f_hash"
    /\ frame_hash' = [frame_hash EXCEPT ![loc[p].sid] = Md5(FrameBody(loc[p].body))]
    /\ IF FrameCount(FrameBody(loc[p].body)) < 1
       THEN Finish(p, loc[p], 400)
       ELSE Goto(p, "f_clear", [loc[p] EXCEPT !.count = FrameCount(FrameBody(loc[p].body))])
    /\ UNCHANGED <<streamVars, targets, queue, active, auth_token, buffer_frames,
                   total_frames, buffer_files, heartbeats, diskVars, envVars>>

\* active_stream.sremall('buffer_files')
CoreFrameHandler_clear(p) ==
    /\ pc[p] = "f_clear"
    /\ buffer_files' = [buffer_files EXCEPT ![loc[p].sid] = {}]
    /\ Goto(p, "f_append", [loc[p] EXCEPT !.names = FrameBody(loc[p].body).files])
    /\ UNCHANGED <<streamVars, targets, queue, active, auth_token, buffer_frames,
                   total_frames, frame_hash, heartbeats, diskVars, envVars>>

\* the next file of the body is decoded and appended to buffer_<name>; after
\* the last one, active_stream.hincrby('buffer_frames', frame_count)
CoreFrameHandler_append(p) ==
    /\ pc[p] = "f_append"
    /\ LET s == loc[p].sid IN
       IF loc[p].names = {}
       THEN /\ buffer_frames' = [buffer_frames EXCEPT ![s] = @ + loc[p].count]
            /\ Finish(p, loc[p], 200)
            /\ UNCHANGED buffers
       ELSE \E f \in loc[p].names :
              LET d == DecodeFrameFile(f)
                  old == IF d.name \in DOMAIN buffers[s] THEN buffers[s][d.name] ELSE <<>>
              IN
              IF s \notin dirs
              THEN /\ Finish(p, loc[p], 500)
                   /\ UNCHANGED <<buffers, buffer_frames>>
              ELSE /\ buffers' = [buffers EXCEPT ![s] = Put(@, d.name, old \o d.data)]
                   /\ Goto(p, "f_sadd", [loc[p] EXCEPT !.names = @ \ {f}, !.todo = {d.name}])
                   /\ UNCHANGED buffer_frames
    /\ UNCHANGED <<streamVars, targets, queue, active, auth_token, total_frames,
                   frame_hash, buffer_files, heartbeats, dirs, files, chkpt,
                   committed, envVars>>

\* mutant: the frame request also renews the lease
CoreFrameHandler_sadd_beat(p) ==
    /\ pc[p] = "f_sadd"
    /\ buffer_files' = [buffer_files EXCEPT ![loc[p].sid] = @ \cup loc[p].todo]
    /\ heartbeats' = [heartbeats EXCEPT ![loc[p].sid] = now + heartbeat_increment]
    /\ Goto(p, "f_append", [loc[p] EXCEPT !.todo = {}])
    /\ UNCHANGED <<streamVars, targets, queue, active, auth_token, buffer_frames,
                   total_frames, frame_hash, diskVars, envVars>>

\* active_stream.sadd('buffer_files', filename)
CoreFrameHandler_sadd(p) ==
    /\ pc[p] = "f_sadd"
    /\ buffer_files' = [buffer_files EXCEPT ![loc[p].sid] = @ \cup loc[p].todo]
    /\ Goto(p, "f_append", [loc[p] EXCEPT !.todo = {}])
    /\ UNCHANGED <<streamVars, targets, queue, active, auth_token, buffer_frames,
                   total_frames, frame_hash, heartbeats, diskVars, envVars>>

\* --------------------------------------------------- PUT /core/checkpoint
\* authenticate_core, stream.hget('frames'), hget('buffer_frames') and the
\* idempotency check
CoreCheckpointHandler_put(p) ==
    /\ Idle(p)
    /\ \E tok \in Tokens, b \in CheckpointBodies :
         LET s == LookupToken(tok)
             l == [NoLoc EXCEPT !.op = "CoreCheckpoint", !.sid = s, !.tok = tok,
                                !.body = b.id]
         IN
         /\ s \in streams
         /\ buffer_frames[s] # 0
         /\ Goto(p, "ck_old", [l EXCEPT !.count = frames[s],
                                        !.bcount = buffer_frames[s],
                                        !.names = DOMAIN b.files])
    /\ UNCHANGED <<kvVars, diskVars, envVars>>

\* authenticate_core answers 401, Stream(stream_id) raises KeyError, or
\* buffer_frames is 0: 'Important to check for idempotency'
CoreCheckpointHandler_return(p) ==
    /\ Idle(p)
    /\ \E h \in Headers, b \in CheckpointBodies :
         LET s == LookupToken(h.tok)
             l == [NoLoc EXCEPT !.op = "CoreCheckpoint", !.sid = s,
                                !.user = h.user, !.tok = h.tok, !.body = b.id]
         IN
         IF s = 0 THEN Finish(p, l, 401)
         ELSE IF s \notin streams THEN Finish(p, l, 500)
         ELSE buffer_frames[s] = 0 /\ Finish(p, l, 200)
    /\ UNCHANGED <<kvVars, diskVars, envVars>>

\* 1) os.rename(files/<name>, files/chkpt_<frames>_<name>) for each file of
\* the body, then active_stream.smembers('buffer_files')
CoreCheckpointHandler_rename_old(p) ==
    /\ pc[p] = "ck_old"
    /\ LET s == loc[p].sid IN
       IF loc[p].names = {}
       THEN /\ Goto(p, "ck_buffers", [loc[p] EXCEPT !.names = buffer_files[s]])
            /\ UNCHANGED <<files, chkpt>>
       ELSE \E n \in loc[p].names :
              IF n \notin DOMAIN files[s]
              THEN /\ Finish(p, loc[p], 500)
                   /\ UNCHANGED <<files, chkpt>>
              ELSE /\ chkpt' = [chkpt EXCEPT ![s] = Put(@, <<loc[p].count, n>>, files[s][n])]
                   /\ files' = [files EXCEPT ![s] = Drop(@, n)]
                   /\ Goto(p, "ck_old", [loc[p] EXCEPT !.names = @ \ {n}])
    /\ UNCHANGED <<kvVars, dirs, buffers, committed, envVars>>

\* 2) os.rename(buffer_<name>, <total_frames>_<name>) for each buffer file
CoreCheckpointHandler_rename_buffers(p) ==
    /\ pc[p] = "ck_buffers"
    /\ LET s == loc[p].sid
           total == loc[p].count + loc[p].bcount IN
       IF loc[p].names = {}
       THEN /\ Goto(p, "ck_write", [loc[p] EXCEPT
                        !.names = DOMAIN CheckpointBody(loc[p].body).files])
            /\ UNCHANGED <<buffers, committed>>
       ELSE \E n \in loc[p].names :
              IF n \notin DOMAIN buffers[s]
              THEN /\ Finish(p, loc[p], 500)
                   /\ UNCHANGED <<buffers, committed>>
              ELSE /\ committed' = [committed EXCEPT ![s] = Put(@, <<total, n>>, buffers[s][n])]
                   /\ buffers' = [buffers EXCEPT ![s] = Drop(@, n)]
                   /\ Goto(p, "ck_buffers", [loc[p] EXCEPT !.names = @ \ {n}])
    /\ UNCHANGED <<kvVars, dirs, files, chkpt, envVars>>

\* 3) the checkpoint bytes are written to files/<name>
CoreCheckpointHandler_write(p) ==
    /\ pc[p] = "ck_write"
    /\ LET s == loc[p].sid
           b == CheckpointBody(loc[p].body) IN
       IF loc[p].names = {}
       THEN /\ Goto(p, "ck_remove", [loc[p] EXCEPT !.names = DOMAIN b.files])
            /\ UNCHANGED files
       ELSE \E n \in loc[p].names :
              /\ files' = [files EXCEPT ![s] = Put(@, n, b.files[n])]
              /\ Goto(p, "ck_write", [loc[p] EXCEPT !.names = @ \ {n}])
    /\ UNCHANGED <<kvVars, dirs, chkpt, buffers, committed, envVars>>

\* mutant: the old checkpoint files are left in files/
CoreCheckpointHandler_remove_keep(p) ==
    /\ pc[p] = "ck_remove"
    /\ Goto(p, "ck_frames", loc[p])
    /\ UNCHANGED <<kvVars, diskVars, envVars>>

\* 4) os.remove(files/chkpt_<frames>_<name>)
CoreCheckpointHandler_remove(p) ==
    /\ pc[p] = "ck_remove"
    /\ LET s == loc[p].sid IN
       IF loc[p].names = {}
       THEN /\ Goto(p, "ck_frames", loc[p])
            /\ UNCHANGED chkpt
       ELSE \E n \in loc[p].names :
              IF <<loc[p].count, n>> \notin DOMAIN chkpt[s]
              THEN /\ Finish(p, loc[p], 500)
                   /\ UNCHANGED chkpt
              ELSE /\ chkpt' = [chkpt EXCEPT ![s] = Drop(@, <<loc[p].count, n>>)]
                   /\ Goto(p, "ck_remove", [loc[p] EXCEPT !.names = @ \ {n}])
    /\ UNCHANGED <<kvVars, dirs, files, buffers, committed, envVars>>

\* mutant: hincrby with the sign of the increment wrong
CoreCheckpointHandler_frames_minus(p) ==
    /\ pc[p] = "ck_frames"
    /\ frames' = [frames EXCEPT ![loc[p].sid] = @ - loc[p].bcount]
    /\ Goto(p, "ck_total", loc[p])
    /\ UNCHANGED <<streams, status, error_count, target, targets, queue,
                   activeVars, heartbeats, diskVars, envVars>>

\* stream.hincrby('frames', buffer_frames)
CoreCheckpointHandler_frames(p) ==
    /\ pc[p] = "ck_frames"
    /\ frames' = [frames EXCEPT ![loc[p].sid] = @ + loc[p].bcount]
    /\ Goto(p, "ck_total", loc[p])
    /\ UNCHANGED <<streams, status, error_count, target, targets, queue,
                   activeVars, heartbeats, diskVars, envVars>>

\* active_stream.hincrby('total_frames', buffer_frames)
CoreCheckpointHandler_total(p) ==
    /\ pc[p] = "ck_total"
    /\ total_frames' = [total_frames EXCEPT ![loc[p].sid] = @ + loc[p].bcount]
    /\ Goto(p, "ck_reset", loc[p])
    /\ UNCHANGED <<streamVars, targets, queue, active, auth_token, buffer_frames,
                   frame_hash, buffer_files, heartbeats, diskVars, envVars>>

\* mutant: buffer_frames is left as it is
CoreCheckpointHandler_reset_skip(p) ==
    /\ pc[p] = "ck_reset"
    /\ Finish(p, loc[p], 200)
    /\ UNCHANGED <<kvVars, diskVars, envVars>>

\* active_stream.hset('buffer_frames', 0)
CoreCheckpointHandler_reset(p) ==
    /\ pc[p] = "ck_reset"
    /\ buffer_frames' = [buffer_frames EXCEPT ![loc[p].sid] = 0]
    /\ Finish(p, loc[p], 200)
    /\ UNCHANGED <<streamVars, targets, queue, active, auth_token, total_frames,
                   frame_hash, buffer_files, heartbeats, diskVars, envVars>>

\* the handler has returned, the response is written if there is one, and
\* the worker takes the next request
Reply(p) ==
    /\ pc[p] = "reply"
    /\ pc' = [pc EXCEPT ![p] = "idle"]
    /\ loc' = [loc EXCEPT ![p] = NoLoc]
    /\ resp' = [resp EXCEPT ![p] = 0]
    /\ last' = [last EXCEPT ![p] =
                  IF loc[p].op \in CoreOps
                  THEN [op |-> loc[p].op, sid |-> loc[p].sid, tok |-> loc[p].tok,
                        body |-> loc[p].body, code |-> resp[p]]
                  ELSE NoLast]
    /\ UNCHANGED <<kvVars, diskVars, envVars>>

\* ------------------------------------------------------------- start()
\* the worker is killed inside a handler and start() runs again: the store
\* (the redis server with its append-only file) and the stream directories
\* are as the handler left them, and nothing in start() looks at them; last
\* keeps the request that was cut short, with no status
start(p) ==
    /\ pc[p] \notin {"idle", "reply", "started"}
    /\ starts < MaxStarts
    /\ starts' = starts + 1
    /\ pc' = [pc EXCEPT ![p] = "started"]
    /\ loc' = [loc EXCEPT ![p] = NoLoc]
    /\ resp' = [resp EXCEPT ![p] = 0]
    /\ last' = [last EXCEPT ![p] = [op |-> loc[p].op, sid |-> loc[p].sid,
                                    tok |-> loc[p].tok, body |-> loc[p].body,
                                    code |-> 0]]
    /\ UNCHANGED <<kvVars, diskVars, now, last_pulse, next_stream, next_token,
                   limits>>

\* tornado.ioloop.IOLoop.instance().start(): requests are served again
IOLoop_start(p) ==
    /\ pc[p] = "started"
    /\ pc' = [pc EXCEPT ![p] = "idle"]
    /\ UNCHANGED <<loc, resp, last, kvVars, diskVars, envVars>>

CoreFrameHandler(p) ==
    \/ CoreFrameHandler_put(p)
    \/ CoreFrameHandler_return(p)
    \/ CoreFrameHandler_hash(p)
    \/ CoreFrameHandler_clear(p)
    \/ CoreFrameHandler_append(p)
    \/ CoreFrameHandler_sadd(p)

CoreCheckpointHandler(p) ==
    \/ CoreCheckpointHandler_put(p)
    \/ CoreCheckpointHandler_return(p)
    \/ CoreCheckpointHandler_rename_old(p)
    \/ CoreCheckpointHandler_rename_buffers(p)
    \/ CoreCheckpointHandler_write(p)
    \/ CoreCheckpointHandler_remove(p)
    \/ CoreCheckpointHandler_frames(p)
    \/ CoreCheckpointHandler_total(p)
    \/ CoreCheckpointHandler_reset(p)

deactivate_stream(p) ==
    \/ deactivate_check(p)
    \/ deactivate_zrem(p)
    \/ deactivate_buffers(p)
    \/ deactivate_delete(p)
    \/ deactivate_read(p)
    \/ deactivate_zadd(p)

\* create, activate, core stop, manager start and stop
Lifecycle(p) ==
    \/ PostStreamHandler_post(p)
    \/ PostStreamHandler_target(p)
    \/ PostStreamHandler_files(p)
    \/ PostStreamHandler_execute(p)
    \/ ActivateStreamHandler_post(p)
    \/ ActivateStreamHandler_create(p)
    \/ ActivateStreamHandler_heartbeat(p)
    \/ CoreStopHandler_put(p)
    \/ CoreStopHandler_error(p)
    \/ StreamStartHandler_put(p)
    \/ StreamStartHandler_execute(p)
    \/ StreamStopHandler_put(p)
    \/ StreamStopHandler_status(p)
    \/ StreamStopHandler_execute(p)
    \/ deactivate_stream(p)
    \/ Reply(p)

\* the requests of the lifecycle that end before their first write
LifecycleReturns(p) ==
    \/ PostStreamHandler_return(p)
    \/ ActivateStreamHandler_return(p)
    \/ CoreStopHandler_return(p)
    \/ StreamStartHandler_return(p)
    \/ StreamStopHandler_return(p)

\* manager and target deletes
Deletes(p) ==
    \/ StreamDeleteHandler_put(p)
    \/ StreamDeleteHandler_return(p)
    \/ StreamDeleteHandler_execute(p)
    \/ StreamDeleteHandler_scard(p)
    \/ StreamDeleteHandler_target(p)
    \/ DeleteTargetHandler_put(p)
    \/ DeleteTargetHandler_return(p)
    \/ DeleteTargetHandler_rmtree(p)
    \/ DeleteTargetHandler_execute(p)

\* what a stream is and holds: info, replace and download
StreamFiles(p) ==
    \/ StreamInfoHandler_get(p)
    \/ TargetStreamsHandler_get(p)
    \/ StreamReplaceHandler_put(p)
    \/ StreamReplaceHandler_return(p)
    \/ StreamReplaceHandler_write(p)
    \/ StreamDownloadHandler_get(p)

\* what a core asks for besides frames: its files, and the lease with
\* heartbeats and the pulse
Lease(p) ==
    \/ CoreStartHandler_get(p)
    \/ CoreHeartbeatHandler_post(p)
    \/ CoreHeartbeatHandler_return(p)
    \/ CoreHeartbeatHandler_zadd(p)
    \/ check_heartbeats(p)

\* one worker, the stream lifecycle and the lease
Next ==
    \/ \E p \in SerialProcs : \/ Lifecycle(p)
                              \/ LifecycleReturns(p)
                              \/ Deletes(p)
                              \/ StreamFiles(p)
                              \/ Lease(p)
    \/ Tick
Spec == Init /\ [][Next]_vars

\* one worker, the lifecycle of one stream with frames, checkpoints and
\* the lease; the lifecycle requests that end before their first write are
\* those of Spec
NextFrames ==
    \/ \E p \in SerialProcs : \/ Lifecycle(p)
                              \/ CoreFrameHandler(p)
                              \/ CoreCheckpointHandler(p)
                              \/ Lease(p)
    \/ Tick
SpecFrames == InitFrames /\ [][NextFrames]_vars

\* one worker that may be killed inside any handler and started again
NextCrash ==
    \E p \in SerialProcs : \/ Lifecycle(p)
                           \/ CoreFrameHandler(p)
                           \/ CoreCheckpointHandler(p)
                           \/ start(p)
                           \/ IOLoop_start(p)
SpecCrash == InitFrames /\ [][NextCrash]_vars

\* two workers, the lifecycle; a request that ends before its first write
\* changes nothing another worker reads and is left out
NextConc == \E p \in Procs : Lifecycle(p)
SpecConc == InitConc /\ [][NextConc]_vars

\* one worker, the lifecycle of two streams that gain frames: the frame and
\* checkpoint requests are those that write
NextQueue ==
    \E p \in SerialProcs : \/ Lifecycle(p)
                           \/ CoreFrameHandler_put(p)
                           \/ CoreFrameHandler_hash(p)
                           \/ CoreFrameHandler_clear(p)
                           \/ CoreFrameHandler_append(p)
                           \/ CoreFrameHandler_sadd(p)
                           \/ CoreCheckpointHandler_put(p)
                           \/ CoreCheckpointHandler_rename_old(p)
                           \/ CoreCheckpointHandler_rename_buffers(p)
                           \/ CoreCheckpointHandler_write(p)
                           \/ CoreCheckpointHandler_remove(p)
                           \/ CoreCheckpointHandler_frames(p)
                           \/ CoreCheckpointHandler_total(p)
                           \/ CoreCheckpointHandler_reset(p)
SpecQueue == InitQueue /\ [][NextQueue]_vars

\* two workers, task 0 with the reaper: streams are created and activated,
\* cores send heartbeats and the reaper deactivates
NextLease ==
    \/ \E p \in Procs : \/ PostStreamHandler_post(p)
                        \/ PostStreamHandler_target(p)
                        \/ PostStreamHandler_files(p)
                        \/ PostStreamHandler_execute(p)
                        \/ ActivateStreamHandler_post(p)
                        \/ ActivateStreamHandler_create(p)
                        \/ ActivateStreamHandler_heartbeat(p)
                        \/ CoreHeartbeatHandler_post(p)
                        \/ CoreHeartbeatHandler_zadd(p)
                        \/ check_heartbeats(p)
                        \/ deactivate_stream(p)
                        \/ Reply(p)
    \/ Tick
SpecLease == InitLease /\ [][NextLease]_vars

\* two workers, task 0 with the reaper: the requests of SpecLease, and
\* /core/stop served by the other worker, so that a deactivation by the
\* reaper, one by /core/stop and an activation interleave
NextReap ==
    \/ NextLease
    \/ \E p \in Procs \ SerialProcs : \/ CoreStopHandler_put(p)
                                      \/ CoreStopHandler_error(p)
SpecReap == InitLease /\ [][NextReap]_vars

\* two workers whose /core/frame handlers interleave on one stream
NextRace ==
    \E p \in Procs : \/ PostStreamHandler_post(p)
                     \/ PostStreamHandler_target(p)
                     \/ PostStreamHandler_files(p)
                     \/ PostStreamHandler_execute(p)
                     \/ ActivateStreamHandler_post(p)
                     \/ ActivateStreamHandler_create(p)
                     \/ ActivateStreamHandler_heartbeat(p)
                     \/ CoreFrameHandler_put(p)
                     \/ CoreFrameHandler_hash(p)
                     \/ CoreFrameHandler_clear(p)
                     \/ CoreFrameHandler_append(p)
                     \/ CoreFrameHandler_sadd(p)
                     \/ Reply(p)
SpecRace == InitConc /\ [][NextRace]_vars

\* two workers that create streams and serve activations at the same time
NextActivate ==
    \E p \in Procs : \/ PostStreamHandler_post(p)
                     \/ PostStreamHandler_target(p)
                     \/ PostStreamHandler_files(p)
                     \/ PostStreamHandler_execute(p)
                     \/ ActivateStreamHandler_post(p)
                     \/ ActivateStreamHandler_create(p)
                     \/ ActivateStreamHandler_heartbeat(p)
                     \/ Reply(p)
SpecActivate == Init /\ [][NextActivate]_vars

\* one worker, one stream whose core writes a frame file and its index,
\* checkpoints and downloads
NextDownload ==
    \E p \in SerialProcs : \/ PostStreamHandler_post(p)
                           \/ PostStreamHandler_target(p)
                           \/ PostStreamHandler_files(p)
                           \/ PostStreamHandler_execute(p)
                           \/ ActivateStreamHandler_post(p)
                           \/ ActivateStreamHandler_create(p)
                           \/ ActivateStreamHandler_heartbeat(p)
                           \/ CoreFrameHandler_put(p)
                           \/ CoreFrameHandler_hash(p)
                           \/ CoreFrameHandler_clear(p)
                           \/ CoreFrameHandler_append(p)
                           \/ CoreFrameHandler_sadd(p)
                           \/ CoreCheckpointHandler_put(p)
                           \/ CoreCheckpointHandler_rename_old(p)
                           \/ CoreCheckpointHandler_rename_buffers(p)
                           \/ CoreCheckpointHandler_write(p)
                           \/ CoreCheckpointHandler_remove(p)
                           \/ CoreCheckpointHandler_frames(p)
                           \/ CoreCheckpointHandler_total(p)
                           \/ CoreCheckpointHandler_reset(p)
                           \/ StreamDownloadHandler_get(p)
                           \/ Reply(p)
SpecDownload == InitDownload /\ [][NextDownload]_vars

\* ---------------------------------------------------------- properties
\* stream s is a member of some target's queue
InQueue(s) == \E t \in Targets : queue[t][s] # None

\* stream s has an entry in the sorted set 'heartbeats'
HasHeartbeat(s) == heartbeats[s] # None

\* C1: in every reachable state no stream id is both a member of its
\* target's queue and the id of an existing ActiveStream.
C1_QueueActiveDisjoint ==
    \A s \in Streams : ~(InQueue(s) /\ s \in active)

\* C2: between completed requests the sorted set heartbeats has an entry for
\* a stream id if and only if an ActiveStream exists for it.
C2_HeartbeatsIffActive ==
    AllIdle => \A s \in Streams : HasHeartbeat(s) <=> s \in active

\* C3: in every reachable state every member of a target's queue is an
\* existing Stream whose status is OK; no STOPPED stream is enqueued.
C3_QueuedAreOK ==
    \A s \in Streams : InQueue(s) => s \in streams /\ status[s] = "OK"

\* C4: Stream.frames of a stream never decreases from one state to the next
\* while the stream exists.
C4_FramesMonotone ==
    [][\A s \in Streams : (s \in streams /\ s \in streams') => frames'[s] >= frames[s]]_vars

\* a stream that has committed frames, was deactivated and is active again
C4_Witness ==
    \E s \in active : frames[s] > 0 /\ total_frames[s] = 0 /\ auth_token[s] > 1

\* C5: when the worker is killed inside /core/checkpoint and started again,
\* the stream has no chkpt_* and no buffer_* file left, every file of files/
\* is there, and no committed frame file has a prefix above Stream.frames.
C5_CrashRecovery ==
    \A p \in Procs :
        (pc[p] = "started" /\ last[p].op = "CoreCheckpoint") =>
            LET s == last[p].sid IN
            /\ DOMAIN chkpt[s] = {}
            /\ DOMAIN buffers[s] = {}
            /\ DOMAIN files[s] = StreamFileNames
            /\ \A k \in DOMAIN committed[s] : k[1] <= frames[s]

\* worker p, idle, takes a /core/checkpoint request with the token and the
\* body of the checkpoint it answered 200 just before, the stream still active
SecondCheckpoint(p) ==
    /\ pc[p] = "idle"
    /\ last[p].op = "CoreCheckpoint"
    /\ last[p].code = 200
    /\ LookupToken(last[p].tok) # 0
    /\ loc'[p].op = "CoreCheckpoint"
    /\ loc'[p].tok = last[p].tok
    /\ loc'[p].body = last[p].body

\* C6: the second of two identical consecutive /core/checkpoint requests on
\* an active stream is answered 200 and leaves Stream.frames, buffer_frames,
\* total_frames and every file of the stream directory as they were.
C6_CheckpointIdempotent ==
    [][\A p \in Procs :
         SecondCheckpoint(p) =>
            /\ pc'[p] = "reply"
            /\ resp'[p] = 200
            /\ UNCHANGED <<frames, buffer_frames, total_frames, diskVars>>]_vars

\* a second identical checkpoint has been answered, after one that committed
\* frames
C6_Witness ==
    \E p \in Procs :
        /\ pc[p] = "reply"
        /\ loc[p].op = "CoreCheckpoint"
        /\ resp[p] = 200
        /\ last[p] = [op |-> "CoreCheckpoint", sid |-> loc[p].sid, tok |-> loc[p].tok,
                      body |-> loc[p].body, code |-> 200]
        /\ total_frames[loc[p].sid] > 0

\* worker p, idle, takes a /core/frame request with the token and the body of
\* the frame it handled just before, the stream still active
SecondFrame(p) ==
    /\ pc[p] = "idle"
    /\ last[p].op = "CoreFrame"
    /\ last[p].code # 401
    /\ LookupToken(last[p].tok) # 0
    /\ loc'[p].op = "CoreFrame"
    /\ loc'[p].tok = last[p].tok
    /\ loc'[p].body = last[p].body

\* C7: a /core/frame request whose body equals that of the immediately
\* preceding /core/frame request on the same active stream is answered 200
\* and leaves buffer_frames, buffer_files and every buffer_<name> unchanged.
C7_FrameReplay ==
    [][\A p \in Procs :
         SecondFrame(p) =>
            /\ pc'[p] = "reply"
            /\ resp'[p] = 200
            /\ UNCHANGED <<buffer_frames, buffer_files, buffers>>]_vars

\* a repeated frame has been answered, after one that was buffered
C7_Witness ==
    \E p \in Procs :
        /\ pc[p] = "reply"
        /\ loc[p].op = "CoreFrame"
        /\ resp[p] = 200
        /\ last[p] = [op |-> "CoreFrame", sid |-> loc[p].sid, tok |-> loc[p].tok,
                      body |-> loc[p].body, code |-> 200]
        /\ buffer_frames[loc[p].sid] > 0
        /\ DOMAIN buffers[loc[p].sid] # {}

\* the reaper finishes the deactivation of stream s in this step
Reaped(p, s) ==
    /\ pc[p] = "d_zadd"
    /\ loc[p].caller = "Pulse"
    /\ loc[p].sid = s
    /\ pc'[p] # "d_zadd"

\* the reaper is not running
NoPulse == \A p \in Procs : loc[p].op # "Pulse"

\* C8: outside a run of the reaper no lease of an active stream is overdue
\* by a tick period or more, and when the reaper has deactivated a stream the
\* stream has no ActiveStream, no heartbeats entry, and is a member of its
\* target's queue with score equal to its Stream.frames.
C8_LeaseReclaim ==
    /\ [](NoPulse => \A s \in active :
                        HasHeartbeat(s) => now < heartbeats[s] + pulse_frequency)
    /\ [][\A p \in Procs, s \in Streams :
            Reaped(p, s) =>
               /\ s \notin active'
               /\ heartbeats'[s] = None
               /\ target'[s] \in targets'
               /\ queue'[target'[s]][s] = frames'[s]]_vars

\* the reaper has returned after reclaiming a stream with committed frames
C8_Witness ==
    \E p \in Procs, s \in streams :
        /\ pc[p] = "reply"
        /\ loc[p].op = "Pulse"
        /\ loc[p].sid = s
        /\ frames[s] > 0
        /\ s \notin active
        /\ InQueue(s)
        /\ now >= heartbeat_increment

\* C9: activation is one atomic step: when the worker is killed inside the
\* activate handler and started again, the stream it popped is either back in
\* the queue with no ActiveStream, or has its ActiveStream and its
\* heartbeats entry.
C9_ActivationAtomic ==
    \A p \in Procs :
        (pc[p] = "started" /\ last[p].op = "Activate") =>
            LET s == last[p].sid IN
            \/ InQueue(s) /\ s \notin active
            \/ s \in active /\ HasHeartbeat(s)

\* C10: /streams/activate pops a stream and creates an ActiveStream only when
\* the peer address of the request is a command center's or loopback.
C10_ActivateOnlyFromCC ==
    \A p \in Procs :
        (loc[p].op = "Activate" /\ loc[p].sid # 0) => authenticate_cc(loc[p].ip)

\* the routes of a manager on a stream or a target
ManagerOps == {"StreamStart", "StreamStop", "StreamDelete", "StreamReplace",
               "StreamDownload", "DeleteTarget"}

\* the request with locals l is about a stream or a target of this shard
OnShard(l) == IF l.op = "DeleteTarget" THEN l.tid \in targets ELSE l.sid \in streams

\* C11: a step of a manager route on an existing stream or target, asked for
\* by anybody but a manager who owns the target, changes neither the
\* key-value store nor the stream directories, and the request is answered
\* 401 with no file bytes.
C11_OwnerOnly ==
    [][\A p \in Procs :
         (/\ loc'[p].op \in ManagerOps
          /\ OnShard(loc'[p])
          /\ ~(authenticate_manager(loc'[p].user) /\ IsOwner(loc'[p].user)))
         => /\ UNCHANGED <<kvVars, diskVars>>
            /\ pc'[p] = "reply" => (resp'[p] = 401 /\ loc'[p].sent = <<>>)]_vars

\* the handlers behind authenticate_manager or listed as routes of a manager,
\* and the handlers behind authenticate_core
ManagerRoutes == ManagerOps \cup {"PostStream"}
CoreRoutes == {"CoreStart", "CoreFrame", "CoreCheckpoint", "CoreStop", "CoreHeartbeat"}

\* C12: no route of a manager answers 200 to a request whose Authorization
\* header is a token handed out by /streams/activate, and no route of a core
\* answers 200 to a request whose header is the token of a manager.
C12_AuthDisjoint ==
    \A p \in Procs :
        pc[p] = "reply" =>
            /\ (loc[p].op \in ManagerRoutes /\ loc[p].tok \in 1..next_token)
                   => resp[p] # 200
            /\ (loc[p].op \in CoreRoutes /\ loc[p].user \in Managers) => resp[p] # 200

\* the tokens of activations whose ActiveStream is yet to be created
InFlight == {loc[p].tok : p \in {q \in Procs : pc[q] = "act_create"}}

\* a token /streams/activate has handed out and no ActiveStream holds
Stale(tok) ==
    /\ tok \in 1..next_token
    /\ tok \notin InFlight
    /\ \A s \in active : auth_token[s] # tok

\* C13: at every step distinct ActiveStreams have distinct tokens, a token
\* stops resolving when its ActiveStream is deleted and never resolves
\* again, and a core request that arrives with such a token is answered 401
\* and changes neither the key-value store nor the stream directories.
C13_TokenBijection ==
    [][/\ \A s, r \in active' : s # r => auth_token'[s] # auth_token'[r]
       /\ \A s \in active' : LookupToken(auth_token[s])' = s
       /\ \A s \in active \ active' : LookupToken(auth_token[s])' = 0
       /\ \A tok \in Tokens : Stale(tok) => Stale(tok)'
       /\ \A p \in Procs :
            (Idle(p) /\ loc'[p].op \in CoreRoutes /\ Stale(loc'[p].tok))
            => /\ pc'[p] = "reply"
               /\ resp'[p] = 401
               /\ UNCHANGED <<kvVars, diskVars>>]_vars

\* a core has been answered 401 for the token of a stream that is no longer
\* active, while another stream is active
C13_Witness ==
    \E p \in Procs :
        /\ pc[p] = "reply"
        /\ loc[p].op \in CoreRoutes
        /\ Stale(loc[p].tok)
        /\ resp[p] = 401
        /\ active # {}

\* C14: the step of /streams/activate that pops takes a member of the
\* target's queue whose score no other member exceeds and removes that
\* member alone; the ActiveStream created, and the activation answered 200,
\* are for the stream popped.
C14_PopsMaximum ==
    [][\A p \in Procs :
         /\ (Idle(p) /\ pc'[p] = "act_create") =>
               LET s == loc'[p].sid
                   t == loc'[p].tid
               IN /\ queue[t][s] # None
                  /\ \A r \in Streams : queue[t][r] <= queue[t][s]
                  /\ \A u \in Targets, r \in Streams :
                        queue'[u][r] = IF u = t /\ r = s THEN None ELSE queue[u][r]
         /\ (loc[p].op = "Activate" /\ active' # active) =>
               active' = active \cup {loc[p].sid}
         /\ (loc[p].op = "Activate" /\ pc'[p] = "reply" /\ resp'[p] = 200) =>
               loc[p].sid \in active']_vars

\* an activation has been answered 200 for a stream with frames while a
\* stream with fewer frames is left in the queue
C14_Witness ==
    \E p \in Procs, r \in Streams :
        /\ pc[p] = "reply"
        /\ loc[p].op = "Activate"
        /\ resp[p] = 200
        /\ r # loc[p].sid
        /\ queue[loc[p].tid][r] # None
        /\ queue[loc[p].tid][r] < frames[loc[p].sid]

\* C15: a /streams/activate request that arrives while the queue of its
\* target has no member is answered 400 at once, and the key-value store and
\* the token counter are as before.
C15_EmptyQueue ==
    [][\A p \in Procs :
         (/\ Idle(p)
          /\ loc'[p].op = "Activate"
          /\ \A s \in Streams : queue[loc'[p].tid][s] = None)
         => /\ pc'[p] = "reply"
            /\ resp'[p] = 400
            /\ UNCHANGED <<kvVars, next_token>>]_vars

\* C16: the step that creates a Stream is a step of POST /streams for that
\* id; it sets frames 0, status OK, error_count 0 and the target of the
\* request, puts the id into that target's queue with score 0 in the same
\* step, and leaves the stream without ActiveStream and heartbeats entry; a
\* POST /streams answered 200 has taken that step.
C16_CreateStream ==
    [][/\ \A s \in streams' \ streams :
            \E p \in Procs :
                /\ loc[p].op = "PostStream"
                /\ loc[p].sid = s
                /\ streams' = streams \cup {s}
                /\ frames'[s] = 0
                /\ status'[s] = "OK"
                /\ error_count'[s] = 0
                /\ target'[s] = loc[p].tid
                /\ queue' = [queue EXCEPT ![loc[p].tid][s] = 0]
                /\ s \notin active'
                /\ heartbeats'[s] = None
       /\ \A p \in Procs :
            (/\ loc[p].op = "PostStream"
             /\ pc[p] # "reply" /\ pc'[p] = "reply" /\ resp'[p] = 200)
            => loc[p].sid \in streams' \ streams]_vars

\* a second stream has been created while the first is active
C16_Witness ==
    \E p \in Procs :
        /\ pc[p] = "reply"
        /\ loc[p].op = "PostStream"
        /\ resp[p] = 200
        /\ queue[loc[p].tid][loc[p].sid] = 0
        /\ active # {}

\* C17: the step that takes a stream from STOPPED to OK is a step of PUT
\* /streams/start on it; in that one step error_count becomes 0 and the
\* stream enters its target's queue with score Stream.frames, which the step
\* leaves as it is; a PUT /streams/start answered 200 for a STOPPED stream
\* has taken that step.
C17_StartStopped ==
    [][/\ \A s \in Streams :
            (status[s] = "STOPPED" /\ status'[s] = "OK") =>
                /\ \E p \in Procs : loc[p].op = "StreamStart" /\ loc[p].sid = s
                /\ error_count'[s] = 0
                /\ queue' = [queue EXCEPT ![target[s]][s] = frames[s]]
                /\ frames' = frames
       /\ \A p \in Procs :
            (/\ loc[p].op = "StreamStart"
             /\ pc[p] # "reply" /\ pc'[p] = "reply" /\ resp'[p] = 200
             /\ status[loc[p].sid] = "STOPPED")
            => status'[loc[p].sid] = "OK"]_vars

\* a stopped stream with frames has been started and is queued with them
C17_Witness ==
    \E p \in Procs :
        /\ pc[p] = "reply"
        /\ loc[p].op = "StreamStart"
        /\ resp[p] = 200
        /\ loc[p].count > 0
        /\ queue[loc[p].tid][loc[p].sid] = frames[loc[p].sid]
        /\ frames[loc[p].sid] > 0

\* C18: the step that ends a PUT /streams/stop with 200 leaves the stream
\* STOPPED, out of every queue, without ActiveStream and without heartbeats
\* entry; and a STOPPED stream enters a queue or gains an ActiveStream only
\* in a step of PUT /streams/start on it.
C18_StopHolds ==
    [][/\ \A p \in Procs :
            (/\ loc[p].op = "StreamStop"
             /\ pc[p] # "reply" /\ pc'[p] = "reply" /\ resp'[p] = 200)
            => LET s == loc[p].sid IN
               /\ status'[s] = "STOPPED"
               /\ \A t \in Targets : queue'[t][s] = None
               /\ s \notin active'
               /\ heartbeats'[s] = None
       /\ \A s \in Streams :
            (/\ status[s] = "STOPPED"
             /\ \/ \E t \in Targets : queue[t][s] = None /\ queue'[t][s] # None
                \/ s \in active' \ active)
            => \E p \in Procs : loc[p].op = "StreamStart" /\ loc[p].sid = s]_vars

\* C19: whenever no request is inside its handler, a Target record exists
\* exactly if some Stream of that target exists.
C19_TargetIffStreams ==
    (\A p \in Procs : pc[p] \in {"idle", "reply"}) =>
        \A t \in Targets : t \in targets <=> \E s \in streams : target[s] = t

\* C20: when PUT /targets/delete/<tid> has been answered 200 for a target
\* that had streams, the target has no record and no queue, no Stream and no ActiveStream is of that target,
\* every heartbeats entry is of a stream of another target, and
\* /streams/info does not answer 200 for any of the streams the request
\* found.
C20_TargetDeleted ==
    \A p \in Procs :
        (/\ pc[p] = "reply" /\ loc[p].op = "DeleteTarget" /\ resp[p] = 200
         /\ loc[p].pipe # {}) =>
            LET t == loc[p].tid IN
            /\ t \notin targets
            /\ \A s \in Streams : queue[t][s] = None
            /\ \A s \in streams : target[s] # t
            /\ \A s \in active : s \in streams /\ target[s] # t
            /\ \A s \in Streams : heartbeats[s] # None =>
                                     (s \in streams /\ target[s] # t)
            /\ \A s \in loc[p].pipe : StreamInfo(s) # 200

\* C21: a Stream record appears only in the step of POST /streams that
\* creates it, for the target of that request, and keeps its target until
\* it is deleted; GET /targets/streams/<tid> is answered 200 whenever a
\* stream of the target exists, and the ids it lists are the existing
\* streams of that target, whatever their status and activation.
C21_TargetStreams ==
    [][/\ \A s \in streams' \ streams :
            \E p \in Procs : /\ loc[p].op = "PostStream"
                             /\ loc[p].sid = s
                             /\ target'[s] = loc[p].tid
       /\ \A s \in streams \cap streams' : target'[s] = target[s]
       /\ \A p \in Procs :
            (Idle(p) /\ loc'[p].op = "TargetStreams") =>
                /\ pc'[p] = "reply"
                /\ (\E s \in streams : target[s] = loc'[p].tid) => resp'[p] = 200
                /\ resp'[p] = 200 =>
                      loc'[p].pipe = {s \in streams : target[s] = loc'[p].tid}]_vars

\* the list has been given for a target with an active and a stopped stream
C21_Witness ==
    \E p \in Procs, s, r \in Streams :
        /\ pc[p] = "reply"
        /\ loc[p].op = "TargetStreams"
        /\ resp[p] = 200
        /\ loc[p].pipe = {s, r}
        /\ s \in active
        /\ status[r] = "STOPPED"

\* worker p is inside deactivate_stream, called by /core/stop or the reaper
Deactivating(p) ==
    /\ loc[p].caller \in {"CoreStop", "Pulse"}
    /\ pc[p] \in {"d_check", "d_zrem", "d_buffers", "d_delete", "d_read", "d_zadd"}

\* C22: no step of a deactivation by /core/stop or by the reaper changes
\* Stream.frames, Stream.status, the files of files/ or the committed frame
\* files, and its last step leaves the stream without ActiveStream and a
\* member of its target's queue with score Stream.frames, where no member
\* outscores it unless it has more frames.
C22_DeactivateKeeps ==
    [][\A p \in Procs :
         Deactivating(p) =>
            /\ frames' = frames
            /\ status' = status
            /\ files' = files
            /\ chkpt' = chkpt
            /\ committed' = committed
            /\ (pc[p] = "d_zadd" /\ pc'[p] # "d_zadd") =>
                  LET s == loc[p].sid
                      t == target[s]
                  IN /\ s \notin active'
                     /\ t \in targets'
                     /\ queue'[t][s] = frames[s]
                     /\ \A r \in Streams : queue'[t][r] > queue'[t][s]
                                              => frames[r] > frames[s]]_vars

\* /core/stop has been answered for a stream with committed frame files,
\* which is queued again
C22_Witness ==
    \E p \in Procs :
        /\ pc[p] = "reply"
        /\ loc[p].op = "CoreStop"
        /\ resp[p] = 200
        /\ frames[loc[p].sid] > 0
        /\ DOMAIN committed[loc[p].sid] # {}
        /\ queue[loc[p].tid][loc[p].sid] = frames[loc[p].sid]

\* the operation worker p works on in a step
StepOp(p) == IF Idle(p) THEN loc'[p].op ELSE loc[p].op

\* worker p takes the step
Steps(p) == <<pc[p], loc[p]>> # <<pc'[p], loc'[p]>>

\* C23: no step of /core/start, /core/frame or /core/checkpoint changes
\* heartbeats, and a step of a core operation that sets an entry of
\* heartbeats is the zadd of /core/heartbeat, for the stream of the
\* request's token, with the expiry now + heartbeat_increment.
C23_OnlyHeartbeatRenews ==
    [][\A p \in Procs :
         /\ (Steps(p) /\ StepOp(p) \in {"CoreStart", "CoreFrame", "CoreCheckpoint"})
               => heartbeats' = heartbeats
         /\ (Steps(p) /\ StepOp(p) \in CoreRoutes) =>
               \A s \in Streams :
                  (heartbeats'[s] # heartbeats[s] /\ heartbeats'[s] # None) =>
                     /\ loc[p].op = "CoreHeartbeat"
                     /\ pc[p] = "hb_zadd"
                     /\ loc[p].sid = s
                     /\ heartbeats'[s] = now + heartbeat_increment]_vars

\* a checkpoint has been committed while the lease of its stream is older
\* than a heartbeat at this moment would make it
C23_Witness ==
    \E p \in Procs :
        /\ pc[p] = "reply"
        /\ loc[p].op = "CoreCheckpoint"
        /\ resp[p] = 200
        /\ frames[loc[p].sid] > 0
        /\ heartbeats[loc[p].sid] # None
        /\ heartbeats[loc[p].sid] < now + heartbeat_increment

\* C24: the reaper removes the lease of a stream, the first write of its
\* deactivation, only when the stream's expiry in heartbeats is at most now.
C24_ReapsOnlyExpired ==
    [][\A p \in Procs :
         (/\ pc[p] = "d_zrem"
          /\ loc[p].caller = "Pulse"
          /\ pc'[p] # "d_zrem") =>
             /\ heartbeats[loc[p].sid] # None
             /\ heartbeats[loc[p].sid] <= now]_vars

\* C25: while a stream and its directory exist, a step that changes the
\* content of files/ of the stream is a step of a /core/checkpoint request
\* for that stream.
C25_FilesOnlyByCheckpoint ==
    [][\A s \in (streams \cap streams') \cap (dirs \cap dirs') :
         files'[s] # files[s] =>
            \E p \in Procs : /\ loc[p].op = "CoreCheckpoint"
                             /\ loc[p].sid = s
                             /\ Steps(p)]_vars

\* worker p is inside a /core/checkpoint that found buffer_frames > 0
Committing(p) == loc[p].op = "CoreCheckpoint" /\ loc[p].bcount > 0 /\ pc[p] # "reply"

\* C26: in a /core/checkpoint that read frames P and buffer_frames B > 0,
\* a buffer file leaves the directory only as <P+B>_<name> with the bytes it
\* had, total_frames changes only by the addition of B, and the step that
\* answers 200 leaves frames = P + B, buffer_frames = 0, every name of
\* buffer_files committed as <P+B>_<name> with no buffer_<name> left,
\* files/<name> equal to the uploaded content for every file of the body,
\* and no chkpt_ file in files/.
C26_CheckpointCommit ==
    [][\A p \in Procs :
         Committing(p) =>
            LET s == loc[p].sid
                P == loc[p].count
                B == loc[p].bcount
                body == CheckpointBody(loc[p].body)
            IN
            /\ \A n \in DOMAIN buffers[s] \ DOMAIN buffers'[s] :
                  /\ <<P + B, n>> \in DOMAIN committed'[s]
                  /\ committed'[s][<<P + B, n>>] = buffers[s][n]
            /\ \A k \in DOMAIN committed[s] :
                  /\ k \in DOMAIN committed'[s]
                  /\ k[1] # P + B => committed'[s][k] = committed[s][k]
            /\ total_frames'[s] # total_frames[s] =>
                  total_frames'[s] = total_frames[s] + B
            /\ (pc'[p] = "reply" /\ resp'[p] = 200) =>
                  /\ frames'[s] = P + B
                  /\ buffer_frames'[s] = 0
                  /\ total_frames'[s] >= B
                  /\ \A n \in buffer_files'[s] :
                        /\ <<P + B, n>> \in DOMAIN committed'[s]
                        /\ n \notin DOMAIN buffers'[s]
                  /\ \A n \in DOMAIN body.files :
                        /\ n \in DOMAIN files'[s]
                        /\ files'[s][n] = body.files[n]
                  /\ chkpt'[s] = EmptyFile]_vars

\* a second checkpoint of a stream has been answered 200: frame files of
\* two checkpoints are committed
C26_Witness ==
    \E p \in Procs :
        /\ pc[p] = "reply"
        /\ loc[p].op = "CoreCheckpoint"
        /\ resp[p] = 200
        /\ loc[p].bcount > 0
        /\ loc[p].count > 0
        /\ frames[loc[p].sid] = loc[p].count + loc[p].bcount
        /\ \E n \in buffer_files[loc[p].sid] :
              <<frames[loc[p].sid], n>> \in DOMAIN committed[loc[p].sid]

\* C27: there is no state in which a /core/checkpoint that read frames P
\* and buffer_frames B > 0 has made Stream.frames P + B while
\* ActiveStream.buffer_frames is still B.
C27_CommitAtomic ==
    \A p \in Procs :
        Committing(p) =>
            ~ /\ frames[loc[p].sid] = loc[p].count + loc[p].bcount
              /\ buffer_frames[loc[p].sid] = loc[p].bcount

\* C28: a GET /streams/download answered 200 for the name of a committed
\* frame file has written the bytes of the committed <k>_<name> files of
\* exactly that name, in increasing order of k, and nothing else.
C28_DownloadFrames ==
    \A p \in Procs :
        (/\ pc[p] = "reply"
         /\ loc[p].op = "StreamDownload"
         /\ resp[p] = 200) =>
            \A n \in loc[p].names :
               LET s == loc[p].sid
                   F == {k \in DOMAIN committed[s] : k[2] = n.name}
               IN F # {} => loc[p].sent = Concatenate(F, committed[s])

\* C29: a GET /core/start answered 200 for a stream on which no checkpoint
\* has committed (Stream.frames is 0) has returned, for every file of
\* files/, the content given at POST /streams.
C29_StartContent ==
    \A p \in Procs :
        (/\ pc[p] = "reply"
         /\ loc[p].op = "CoreStart"
         /\ resp[p] = 200
         /\ frames[loc[p].sid] = 0) =>
            loc[p].sent = <<[n \in StreamFileNames |-> InitialContent]>>

\* C30: the step that answers a PUT /streams/stop of the owner for a stream
\* whose status is already STOPPED answers 400 and leaves the status, the
\* queues and the active streams as they are.
C30_StopStopped ==
    [][\A p \in Procs :
         (/\ loc[p].op = "StreamStop"
          /\ pc[p] = "stop_status"
          /\ loc[p].sid \in streams
          /\ status[loc[p].sid] = "STOPPED"
          /\ pc'[p] = "reply") =>
             /\ resp'[p] = 400
             /\ status' = status
             /\ queue' = queue
             /\ active' = active]_vars

\* the local variables of the request worker p works on in a step
StepLoc(p) == IF Idle(p) THEN loc'[p] ELSE loc[p]

\* C31: no step of a /core/frame request with a valid token whose body has
\* frames < 1 changes frame_hash, buffer_frames, buffer_files or a buffer
\* file, and the step that answers it answers 400.
C31_InvalidFrame ==
    [][\A p \in Procs :
         (/\ Steps(p)
          /\ StepOp(p) = "CoreFrame"
          /\ StepLoc(p).sid # 0
          /\ FrameCount(FrameBody(StepLoc(p).body)) < 1) =>
             /\ frame_hash' = frame_hash
             /\ buffer_frames' = buffer_frames
             /\ buffer_files' = buffer_files
             /\ buffers' = buffers
             /\ (pc[p] # "reply" /\ pc'[p] = "reply") => resp'[p] = 400]_vars

\* C32: a /core/checkpoint that read buffer_frames > 0 and is answered 500
\* fails before its first rename: the failing step is the rename of the
\* first file of the body, with files/, the buffer files and the chkpt_
\* files as the request found them.
C32_CheckpointFailsClean ==
    [][\A p \in Procs :
         (/\ Committing(p)
          /\ pc'[p] = "reply"
          /\ resp'[p] = 500) =>
             /\ pc[p] = "ck_old"
             /\ loc[p].names = DOMAIN CheckpointBody(loc[p].body).files
             /\ UNCHANGED <<frames, buffer_frames, buffer_files, files, buffers,
                            chkpt>>]_vars

\* C33: when no worker is inside a handler, an existing stream with status
\* OK is either in its target's queue and without ActiveStream, or out of
\* the queue with an ActiveStream and an entry in heartbeats.
C33_DeactivationsConverge ==
    AllIdle =>
       \A s \in streams :
          status[s] = "OK" =>
             \/ InQueue(s) /\ s \notin active
             \/ ~InQueue(s) /\ s \in active /\ HasHeartbeat(s)

\* worker p handles a /core/frame that passed the replay test and has just
\* appended the data of a file of its body to the buffer file
Appended(p) == loc[p].op = "CoreFrame" /\ pc[p] = "f_sadd"

\* C34: two workers never both append the data of the same request body to
\* the buffer files of the same stream: of a /core/frame and its retry, one
\* is recognised as the replay.
C34_FrameOnce ==
    \A p, q \in Procs :
        (/\ p # q
         /\ Appended(p)
         /\ Appended(q)
         /\ loc[p].sid = loc[q].sid)
            => loc[p].body # loc[q].body

\* the largest frame number among the committed <N>_<name> files of stream
\* s, or 0 when there is none
LargestCommitted(s) ==
    LET N == {k[1] : k \in DOMAIN committed[s]} \cup {0}
    IN  CHOOSE m \in N : \A k \in N : k <= m

\* C35: when no worker is inside a handler, Stream.frames of an existing
\* stream is the largest frame number among its committed frame files, or
\* 0 when it has none.
C35_FramesAreCommitted ==
    AllIdle => \A s \in streams : frames[s] = LargestCommitted(s)

\* C36: every stream with an ActiveStream exists and has status OK, which
\* is what the assertion of /core/start needs for every valid token.
C36_ActiveAreOK ==
    \A s \in active : s \in streams /\ status[s] = "OK"

C38_EmptyBuffer ==
    [][/\ \A s \in active' \ active : buffers'[s] = EmptyFile
       /\ \A p \in Procs :
            (/\ Committing(p)
             /\ pc'[p] = "reply"
             /\ resp'[p] = 200) => buffers'[loc[p].sid] = EmptyFile]_vars

\* worker p is inside an activation that has popped a stream, or holds the
\* 200 with the token for it
Leasing(p) ==
    /\ loc[p].op = "Activate"
    /\ \/ pc[p] \in {"act_create", "act_heartbeat"}
       \/ pc[p] = "reply" /\ resp[p] = 200

\* C39: two workers that handle activations at the same time hold
\* different streams, and no two distinct tokens resolve to the same
\* stream.
C39_OneLease ==
    /\ \A p, q \in Procs :
          (p # q /\ Leasing(p) /\ Leasing(q)) => loc[p].sid # loc[q].sid
    /\ \A a, b \in Tokens :
          (a # b /\ LookupToken(a) # 0) => LookupToken(a) # LookupToken(b)

\* two activations for the same target are in progress at the same time,
\* each with a stream popped from the queue
C39_Witness ==
    \E p, q \in Procs :
        /\ p # q
        /\ loc[p].op = "Activate" /\ pc[p] = "act_create"
        /\ loc[q].op = "Activate" /\ pc[q] = "act_create"
        /\ loc[p].tid = loc[q].tid
        /\ loc[p].sid # loc[q].sid

\* C40: when every worker is between requests, also right after a restart,
\* every existing stream with status OK is in its target's queue or has an
\* ActiveStream and an entry in heartbeats.
C40_NeverLost ==
    (\A p \in Procs : pc[p] \in {"idle", "started"}) =>
        \A s \in streams :
           status[s] = "OK" =>
              \/ InQueue(s)
              \/ s \in active /\ HasHeartbeat(s)

====
